---- MODULE Spec2Model ----
(***************************************************************************)
(* A model of the viNES emulator core: controller, iNES loader, mapper 0,  *)
(* PPU register file and timing engine, APU frame counter, bus, CPU        *)
(* interpreter (the opcodes the modelled programs use) and the system      *)
(* driver.  Components are records, operations are                         *)
(* operators from a component record to the updated record (and, for       *)
(* reads, the value returned), translated from the Rust source.            *)
(***************************************************************************)
EXTENDS Integers, Sequences, FiniteSets, TLC

VARIABLES
    cpu,        \* Cpu: a, x, y, sp, pc, status, cycles, stall
    bus,        \* Bus: ram, ppu, apu, mapper, controller1, controller2
    op,         \* observation: the operation performed by the last step
    ret,        \* observation: the value returned by the last operation
    latched,    \* observation: button mask latched by the last 1->0 strobe
    nreads,     \* observation: controller reads since that latch
    ppu_ticks,  \* observation: Ppu::tick calls issued so far
    apu_ticks,  \* observation: Apu::tick calls issued so far
    sf_i,       \* Nes::step_frame: loop counter of the call in progress
    sf_log,     \* observation: results of the step_frame calls completed
    nops,       \* observation: operations made so far (SpecApu: APU ticks since
                \* power-on or the last $4017 write)
    inp,        \* the inputs of the run, chosen at its start
    out         \* observation: the values the run's reads returned, in order

vars == <<cpu, bus, op, ret, latched, nreads, ppu_ticks, apu_ticks, sf_i, sf_log, nops,
          inp, out>>

-----------------------------------------------------------------------------
(* Fixed-width integer helpers (u8 / u16 arithmetic of the source).        *)

RECURSIVE BitAndN(_, _, _)
BitAndN(a, b, n) ==
    IF n = 0 THEN 0
    ELSE (IF a % 2 = 1 /\ b % 2 = 1 THEN 1 ELSE 0)
         + 2 * BitAndN(a \div 2, b \div 2, n - 1)

\* a & b on 16-bit operands
BitAnd(a, b) == BitAndN(a, b, 16)
\* a | b on 16-bit operands
BitOr(a, b) == a + b - BitAnd(a, b)
\* a & !b on 16-bit operands
BitClear(a, b) == a - BitAnd(a, b)
\* bit n of a
Bit(a, n) == (a \div (2 ^ n)) % 2
\* flag test, bitflags' contains()
Contains(bits, flag) == BitAnd(bits, flag) = flag

-----------------------------------------------------------------------------
(* Controller (controller.rs)                                              *)

BUTTON_A == 1
BUTTON_SELECT == 4
BUTTON_DOWN == 32
BUTTON_RIGHT == 128

\* The keys the host presses and releases in the model.
Keys == {BUTTON_A, BUTTON_SELECT, BUTTON_DOWN, BUTTON_RIGHT}

ControllerNew == [buttons |-> 0, strobe |-> FALSE, shift_register |-> 0]

ControllerWrite(c, val) ==
    IF val % 2 = 1
    THEN [c EXCEPT !.strobe = TRUE]
    ELSE [c EXCEPT !.shift_register = IF c.strobe THEN c.buttons ELSE @,
                   !.strobe = FALSE]

\* Controller::read shifting ones in from the top, as the hardware does
ControllerReadOnes(c) ==
    IF c.strobe
    THEN [c |-> c, val |-> c.buttons % 2]
    ELSE [c |-> [c EXCEPT !.shift_register = (c.shift_register \div 2) + 128],
          val |-> c.shift_register % 2]

\* Controller::read without the early return of strobe mode
ControllerReadShifting(c) ==
    [c |-> [c EXCEPT !.shift_register = c.shift_register \div 2],
     val |-> IF c.strobe THEN c.buttons % 2 ELSE c.shift_register % 2]

\* Controller::read: the controller after the read and the byte returned
ControllerRead(c) ==
    IF c.strobe
    THEN [c |-> c, val |-> c.buttons % 2]
    ELSE [c |-> [c EXCEPT !.shift_register = c.shift_register \div 2],
          val |-> c.shift_register % 2]

-----------------------------------------------------------------------------
(* Byte memories.  An array of the source is a function from the indices   *)
(* that hold a nonzero byte; every other index holds 0, as after [0; N].   *)

MemNew == << >>
MemGet(m, i) == IF i \in DOMAIN m THEN m[i] ELSE 0
MemSet(m, i, val) ==
    IF val = 0
    THEN [j \in DOMAIN m \ {i} |-> m[j]]
    ELSE [j \in DOMAIN m \cup {i} |-> IF j = i THEN val ELSE m[j]]

-----------------------------------------------------------------------------
(* Cartridge images.  A PRG ROM is 16 KiB of 0xEA (NOP) with the listed    *)
(* code and the three vectors laid over it; addresses are CPU addresses of *)
(* the first mirror (0x8000..0xBFFF).                                      *)

PRG_ROM_PAGE_SIZE == 16384
ResetAddr == 32768
NmiAddr == ResetAddr + 256
IrqAddr == ResetAddr + 512

\* the bytes seq placed from CPU address base on
At(base, seq) == [i \in (base - 32768)..(base - 32768 + Len(seq) - 1) |-> seq[i - (base - 32768) + 1]]

Vectors ==
    At(49146, <<NmiAddr % 256, NmiAddr \div 256, ResetAddr % 256, ResetAddr \div 256,
                IrqAddr % 256, IrqAddr \div 256>>)

\* idle:   reset: JMP reset                      nmi: RTI
\* nops:   reset: NOP x16; JMP reset             nmi: RTI
\* nmi:    reset: LDA #$80; STA $2000; l: JMP l  nmi: LDA $2002; RTI
\* toggle: reset: LDA #$00; STA $2000; LDA #$80; STA $2000; JMP reset
\*                                               nmi: RTI
\* branch: reset: LDA #$80; STA $2000; JMP $80F0
\*         $80F0: LDX #$FF; LDA $80FF,X; BEQ +0; BNE $810C (page crossed)
\*         $810C: BNE $8110; $8110: JMP $80F0    nmi: RTI
\* dma:    reset: LDA #$02; STA $4014; JMP $8008
\*         $8008: STA $4014; l: JMP l            nmi: RTI
Roms ==
    [idle   |-> At(ResetAddr, <<76, 0, 128>>) @@ At(NmiAddr, <<64>>) @@ Vectors,
     nops   |-> At(ResetAddr + 16, <<76, 0, 128>>) @@ At(NmiAddr, <<64>>) @@ Vectors,
     nmi    |-> At(ResetAddr, <<169, 128, 141, 0, 32, 76, 5, 128>>)
                @@ At(NmiAddr, <<173, 2, 32, 64>>) @@ Vectors,
     toggle |-> At(ResetAddr, <<169, 0, 141, 0, 32, 169, 128, 141, 0, 32, 76, 0, 128>>)
                @@ At(NmiAddr, <<64>>) @@ Vectors,
     branch |-> At(ResetAddr, <<169, 128, 141, 0, 32, 76, 240, 128>>)
                @@ At(33008, <<162, 255, 189, 255, 128, 240, 0, 208, 19>>)
                @@ At(33036, <<208, 2>>) @@ At(33040, <<76, 240, 128>>)
                @@ At(NmiAddr, <<64>>) @@ Vectors,
     dma    |-> At(ResetAddr, <<169, 2, 141, 20, 64, 76, 8, 128, 141, 20, 64, 76, 11, 128>>)
                @@ At(NmiAddr, <<64>>) @@ Vectors]

RomNames == DOMAIN Roms

\* The CHR ROM of the carts: 8 KiB of zeros but for two pattern bytes
CHR_ROM_PAGE_SIZE == 8192
ChrImage == (0 :> 95) @@ (4159 :> 60)

PrgByte(rom, index) == IF index \in DOMAIN Roms[rom] THEN Roms[rom][index] ELSE 234

-----------------------------------------------------------------------------
(* Cartridge (cartridge/mod.rs).  An iNES file is its length, the header   *)
(* bytes the parser reads and a seed for the bytes after the header; a     *)
(* Vec<u8> is where its bytes were taken from (a range of a file, zeros, a *)
(* program image) and the bytes written to it since.                       *)

TRAINER_SIZE == 512

\* raw[i]
RawByte(raw, i) ==
    CASE i < 4 -> raw.magic[i + 1]
      [] i = 4 -> raw.prg_pages
      [] i = 5 -> raw.chr_pages
      [] i = 6 -> raw.flags6
      [] i = 7 -> raw.flags7
      [] i \in 8..15 -> 0
      [] OTHER -> (raw.seed + i * 31 + (i \div 256) * 7) % 256

NoFile ==
    [len |-> 0, magic |-> <<0, 0, 0, 0>>, prg_pages |-> 0, chr_pages |-> 0,
     flags6 |-> 0, flags7 |-> 0, seed |-> 0]

\* the bytes a vector was built from
VecBase(v, i) ==
    CASE v.img = "file" -> RawByte(v.raw, v.off + i)
      [] v.img = "zeros" -> 0
      [] v.img = "chr" -> MemGet(ChrImage, i)
      [] OTHER -> PrgByte(v.img, i)

\* v[i]
VecGet(v, i) == IF i \in DOMAIN v.upd THEN v.upd[i] ELSE VecBase(v, i)

\* v[i] = val
VecSet(v, i, val) ==
    [v EXCEPT !.upd = IF val = VecBase(v, i)
                      THEN [j \in DOMAIN @ \ {i} |-> @[j]]
                      ELSE (i :> val) @@ @]

\* raw[off..off + len].to_vec()
Slice(raw, off, len) == [img |-> "file", raw |-> raw, off |-> off, len |-> len, upd |-> << >>]

\* the vector of an image that is not read from a file
Image(img, len) == [img |-> img, raw |-> NoFile, off |-> 0, len |-> len, upd |-> << >>]

\* the cartridge of a program image: one PRG page, one CHR page
ProgramCart(rom) ==
    [prg_rom |-> Image(rom, PRG_ROM_PAGE_SIZE), chr_rom |-> Image("chr", CHR_ROM_PAGE_SIZE),
     mapper_id |-> 0, mirroring |-> "Horizontal"]

\* the mapper id taken from flags6 alone
ines_mapper_id_low(flags6, flags7) == flags6 \div 16

\* Cartridge::from_ines, `(flags7 & 0xF0) | (flags6 >> 4)`
ines_mapper_id(flags6, flags7) == BitOr(BitAnd(flags7, 240), flags6 \div 16)

\* the PRG offset with the trainer not skipped
ines_offset_no_trainer(flags6) == 16

\* Cartridge::from_ines, the offset of PRG: past the header and the trainer
ines_offset(flags6) == 16 + (IF BitAnd(flags6, 4) # 0 THEN TRAINER_SIZE ELSE 0)

\* Cartridge::from_ines: Ok(cartridge) or Err(error)
from_ines(raw) ==
    LET prg_rom_size == raw.prg_pages * PRG_ROM_PAGE_SIZE
        chr_rom_size == raw.chr_pages * CHR_ROM_PAGE_SIZE
        mapper_id == ines_mapper_id(raw.flags6, raw.flags7)
        offset == ines_offset(raw.flags6)
    IN  IF raw.len < 16 THEN [ok |-> FALSE, err |-> "TruncatedFile", id |-> 0]
        ELSE IF <<RawByte(raw, 0), RawByte(raw, 1), RawByte(raw, 2), RawByte(raw, 3)>>
                    # <<78, 69, 83, 26>>
        THEN [ok |-> FALSE, err |-> "InvalidHeader", id |-> 0]
        ELSE IF mapper_id # 0
        THEN [ok |-> FALSE, err |-> "UnsupportedMapper", id |-> mapper_id]
        ELSE IF raw.len < offset + prg_rom_size + chr_rom_size
        THEN [ok |-> FALSE, err |-> "TruncatedFile", id |-> 0]
        ELSE [ok |-> TRUE,
              cart |-> [prg_rom |-> Slice(raw, offset, prg_rom_size),
                        chr_rom |-> IF chr_rom_size > 0
                                    THEN Slice(raw, offset + prg_rom_size, chr_rom_size)
                                    ELSE Image("zeros", CHR_ROM_PAGE_SIZE),
                        mapper_id |-> mapper_id,
                        mirroring |-> IF BitAnd(raw.flags6, 8) # 0 THEN "FourScreen"
                                      ELSE IF BitAnd(raw.flags6, 1) # 0 THEN "Vertical"
                                      ELSE "Horizontal"]]

-----------------------------------------------------------------------------
(* PPU registers (ppu/registers.rs)                                        *)

CTRL_VRAM_INCREMENT == 4
CTRL_SPRITE_SIZE == 32
CTRL_NMI_ENABLE == 128
MASK_SHOW_BG == 8
MASK_SHOW_SPR == 16
SPRITE_OVERFLOW == 32
SPRITE_ZERO_HIT == 64
VBLANK == 128

\* PpuStatus::from_bits_truncate / the three defined status bits
StatusBits(bits) == BitAnd(bits, 224)

vram_increment(ctrl) == IF Contains(ctrl, CTRL_VRAM_INCREMENT) THEN 32 ELSE 1

-----------------------------------------------------------------------------
(* PPU (ppu/mod.rs).  The frame buffer (pixel output) is not part of the   *)
(* record; what the renderer does to the status flags is.                  *)

LastCycle == 340
LastScanline == 261
VblankScanline == 241
VisibleScanlines == 240

PpuNew(chr_rom, mirroring) ==
    [chr_rom |-> chr_rom,
     palette_ram |-> [i \in 0..31 |-> 0],
     vram |-> MemNew, oam |-> MemNew,
     ctrl |-> 0, mask |-> 0, status |-> 0, oam_addr |-> 0,
     v |-> 0, t |-> 0, fine_x |-> 0, w |-> FALSE,
     scroll_x |-> 0, scroll_y |-> 0, read_buffer |-> 0,
     scanline |-> 0, cycle |-> 0, frame_count |-> 0,
     nmi_pending |-> FALSE, mirroring |-> mirroring]

rendering_enabled(p) ==
    Contains(p.mask, MASK_SHOW_BG) \/ Contains(p.mask, MASK_SHOW_SPR)

\* the fine-Y increment carrying out of bit 14
increment_v_y_carry(v) == v + 4096

\* Ppu::increment_v_y, as the new value of v
increment_v_y(v) ==
    IF BitAnd(v, 28672) # 28672
    THEN v + 4096
    ELSE LET v1 == BitClear(v, 28672)
             coarse_y == BitAnd(v1, 992) \div 32
             v2 == IF coarse_y = 29
                   THEN (IF Bit(v1, 11) = 1 THEN v1 - 2048 ELSE v1 + 2048)
                   ELSE v1
             cy == IF coarse_y = 29 \/ coarse_y = 31 THEN 0 ELSE coarse_y + 1
         IN  BitOr(BitClear(v2, 992), cy * 32)

\* render_sprite_scanline's sprite evaluation: sprite i covers the scanline
SpriteOnLine(p, i, scanline) ==
    LET sprite_y == MemGet(p.oam, i * 4) + 1
        height == IF Contains(p.ctrl, CTRL_SPRITE_SIZE) THEN 16 ELSE 8
    IN  scanline >= sprite_y /\ scanline < sprite_y + height

\* Ppu::render_scanline, as the new status byte.  hit: some non-transparent,
\* unmasked pixel of sprite 0 at x < 255 lies on an opaque frame pixel (the
\* pattern and frame-buffer contents are inputs).
render_scanline(p, scanline, hit) ==
    IF ~Contains(p.mask, MASK_SHOW_SPR) THEN p.status
    ELSE LET on_line == {i \in 0..63 : SpriteOnLine(p, i, scanline)}
             s1 == IF Cardinality(on_line) > 8
                   THEN BitOr(p.status, SPRITE_OVERFLOW) ELSE p.status
         IN  IF 0 \in on_line /\ hit THEN BitOr(s1, SPRITE_ZERO_HIT) ELSE s1

\* the V register updates done on every scanline, vblank included
tick_v_all_lines(p) ==
    LET pre_render == p.scanline = LastScanline
        upd == rendering_enabled(p)
        va == IF p.cycle = 256 /\ upd THEN increment_v_y(p.v) ELSE p.v
        vb == IF p.cycle = 257 /\ upd
              THEN BitOr(BitClear(va, 1055), BitAnd(p.t, 1055)) ELSE va
    IN  IF pre_render /\ p.cycle >= 280 /\ p.cycle <= 304 /\ upd
        THEN BitOr(BitClear(vb, 31712), BitAnd(p.t, 31712)) ELSE vb

\* Ppu::tick, the V register updates: the new value of v
tick_v(p) ==
    LET pre_render == p.scanline = LastScanline
        upd == (p.scanline < VisibleScanlines \/ pre_render) /\ rendering_enabled(p)
        va == IF p.cycle = 256 /\ upd THEN increment_v_y(p.v) ELSE p.v
        vb == IF p.cycle = 257 /\ upd
              THEN BitOr(BitClear(va, 1055), BitAnd(p.t, 1055)) ELSE va
    IN  IF pre_render /\ p.cycle >= 280 /\ p.cycle <= 304 /\ upd
        THEN BitOr(BitClear(vb, 31712), BitAnd(p.t, 31712)) ELSE vb

\* Ppu::tick, the pre-render flag clear and the vblank start: the new status
\* byte, the new nmi_pending and the value tick returns
tick_flags_late(p, st) ==
    LET vbl == p.scanline = VblankScanline /\ p.cycle = 2
        st2 == IF p.scanline = LastScanline /\ p.cycle = 1
               THEN BitClear(st, VBLANK + SPRITE_ZERO_HIT + SPRITE_OVERFLOW) ELSE st
    IN  [status |-> IF vbl THEN BitOr(st2, VBLANK) ELSE st2,
         nmi_pending |-> IF vbl /\ Contains(p.ctrl, CTRL_NMI_ENABLE)
                         THEN TRUE ELSE p.nmi_pending,
         frame_complete |-> vbl]

tick_flags(p, st) ==
    LET vbl == p.scanline = VblankScanline /\ p.cycle = 1
        st2 == IF p.scanline = LastScanline /\ p.cycle = 1
               THEN BitClear(st, VBLANK + SPRITE_ZERO_HIT + SPRITE_OVERFLOW) ELSE st
    IN  [status |-> IF vbl THEN BitOr(st2, VBLANK) ELSE st2,
         nmi_pending |-> IF vbl /\ Contains(p.ctrl, CTRL_NMI_ENABLE)
                         THEN TRUE ELSE p.nmi_pending,
         frame_complete |-> vbl]

\* Ppu::tick, the advance of (cycle, scanline, frame_count), with the wrap
\* tests off by one
advance_early(p) ==
    LET wrap_c == p.cycle + 1 >= LastCycle
        wrap_s == wrap_c /\ p.scanline + 1 >= LastScanline
    IN  [p EXCEPT !.cycle = IF wrap_c THEN 0 ELSE p.cycle + 1,
                  !.scanline = IF wrap_s THEN 0
                               ELSE IF wrap_c THEN p.scanline + 1 ELSE p.scanline,
                  !.frame_count = IF wrap_s THEN @ + 1 ELSE @]

\* Ppu::tick, the advance of (cycle, scanline, frame_count)
advance(p) ==
    LET wrap_c == p.cycle + 1 > LastCycle
        wrap_s == wrap_c /\ p.scanline + 1 > LastScanline
    IN  [p EXCEPT !.cycle = IF wrap_c THEN 0 ELSE p.cycle + 1,
                  !.scanline = IF wrap_s THEN 0
                               ELSE IF wrap_c THEN p.scanline + 1 ELSE p.scanline,
                  !.frame_count = IF wrap_s THEN @ + 1 ELSE @]

\* Ppu::tick: the PPU after the tick and the value returned (frame complete)
PpuTick(p, hit) ==
    LET st1 == IF p.scanline < VisibleScanlines /\ p.cycle = 0
               THEN render_scanline(p, p.scanline, hit) ELSE p.status
        f == tick_flags(p, st1)
    IN  [ppu |-> advance([p EXCEPT !.status = f.status, !.v = tick_v(p),
                                   !.nmi_pending = f.nmi_pending]),
         frame_complete |-> f.frame_complete]

-----------------------------------------------------------------------------
(* PPU internal address space (ppu/mod.rs)                                 *)

\* palette_mirror without the four mirrored entries
palette_no_mirror(addr) == (addr - 16128) % 32

palette_mirror(addr) ==
    LET index == (addr - 16128) % 32
    IN  IF index \in {16, 20, 24, 28} THEN index - 16 ELSE index

palette_read(p, addr) == p.palette_ram[palette_mirror(addr)]

palette_write(p, addr, val) ==
    [p EXCEPT !.palette_ram[palette_mirror(addr)] = val]

\* Ppu::mirror_vram_addr with the two arrangements exchanged
mirror_vram_addr_swapped(p, addr) ==
    LET a == (addr - 8192) % 4096
        nametable == a \div 1024
        offset == a % 1024
        mirrored_nt == CASE p.mirroring = "Vertical" -> (IF nametable \in {0, 1} THEN 0 ELSE 1)
                         [] p.mirroring = "Horizontal" -> (IF nametable \in {0, 2} THEN 0 ELSE 1)
                         [] p.mirroring = "FourScreen" -> nametable
    IN  mirrored_nt * 1024 + offset

mirror_vram_addr(p, addr) ==
    LET a == (addr - 8192) % 4096
        nametable == a \div 1024
        offset == a % 1024
        mirrored_nt == CASE p.mirroring = "Horizontal" -> (IF nametable \in {0, 1} THEN 0 ELSE 1)
                         [] p.mirroring = "Vertical" -> (IF nametable \in {0, 2} THEN 0 ELSE 1)
                         [] p.mirroring = "FourScreen" -> nametable
    IN  mirrored_nt * 1024 + offset

internal_read(p, addr0) ==
    LET addr == addr0 % 16384
    IN  IF addr <= 8191 THEN (IF addr < p.chr_rom.len THEN VecGet(p.chr_rom, addr) ELSE 0)
        ELSE IF addr <= 16127 THEN MemGet(p.vram, mirror_vram_addr(p, addr))
        ELSE palette_read(p, addr)

internal_write(p, addr0, val) ==
    LET addr == addr0 % 16384
    IN  IF addr <= 8191
        THEN (IF addr < p.chr_rom.len THEN [p EXCEPT !.chr_rom = VecSet(@, addr, val)] ELSE p)
        ELSE IF addr <= 16127
        THEN [p EXCEPT !.vram = MemSet(@, mirror_vram_addr(p, addr), val)]
        ELSE palette_write(p, addr, val)

-----------------------------------------------------------------------------
(* The scanline renderer (ppu/render.rs), pixel by pixel.  A row of the    *)
(* frame buffer is a function from x in 0..255 to an RGB value.            *)

MASK_SHOW_BG_LEFT == 2
MASK_SHOW_SPR_LEFT == 4
CTRL_SPRITE_TABLE == 8
CTRL_BG_TABLE == 16

\* SYSTEM_PALETTE[c]: the RGB value of colour c, the 64 entries taken to be
\* pairwise different
SYSTEM_PALETTE(c) == [rgb |-> c]

\* the universal background colour, as render_scanline and
\* is_bg_pixel_opaque compute it
backdrop(p) == SYSTEM_PALETTE(p.palette_ram[0] % 64)

\* render_bg_scanline, one iteration of the loop: the pattern value and the
\* attribute palette of the background at screen_x
bg_pixel(p, screen_x) ==
    LET bg_table == IF Contains(p.ctrl, CTRL_BG_TABLE) THEN 4096 ELSE 0
        coarse_y == (p.v \div 32) % 32
        fine_y == (p.v \div 4096) % 8
        nt_select == (p.v \div 1024) % 4
        abs_x == (p.v % 32) * 8 + p.fine_x + screen_x
        tile_col == (abs_x \div 8) % 32
        nt_x == ((nt_select % 2) + ((abs_x \div 256) % 2)) % 2
        nt == 8192 + (((nt_select \div 2) % 2) * 2 + nt_x) * 1024
        tile_index == internal_read(p, nt + coarse_y * 32 + tile_col)
        pattern_addr == bg_table + tile_index * 16 + fine_y
        bit == 7 - (abs_x % 8)
        attr_byte == internal_read(p, nt + 960 + (coarse_y \div 4) * 8 + (tile_col \div 4))
        shift == (((coarse_y % 4) \div 2) * 2 + ((tile_col % 4) \div 2)) * 2
    IN  [pixel |-> Bit(internal_read(p, pattern_addr + 8), bit) * 2
                      + Bit(internal_read(p, pattern_addr), bit),
         palette_index |-> (attr_byte \div (2 ^ shift)) % 4]

\* render_bg_scanline: the row after the background is drawn over it
render_bg_scanline(p, row) ==
    [x \in 0..255 |->
        IF ~Contains(p.mask, MASK_SHOW_BG_LEFT) /\ x < 8 THEN row[x]
        ELSE LET b == bg_pixel(p, x)
             IN  SYSTEM_PALETTE((IF b.pixel = 0 THEN p.palette_ram[0]
                                 ELSE p.palette_ram[(b.palette_index * 4 + b.pixel) % 32]) % 64)]

\* is_bg_pixel_opaque: the frame-buffer pixel differs from the universal
\* background colour
is_bg_pixel_opaque(p, row, x) == row[x] # backdrop(p)

\* render_sprite_scanline, the inner loop: the pattern value of column col of
\* sprite i on the scanline
sprite_pixel(p, i, scanline, col) ==
    LET sprite_table == IF Contains(p.ctrl, CTRL_SPRITE_TABLE) THEN 4096 ELSE 0
        height == IF Contains(p.ctrl, CTRL_SPRITE_SIZE) THEN 16 ELSE 8
        attributes == MemGet(p.oam, i * 4 + 2)
        row0 == (scanline - (MemGet(p.oam, i * 4) + 1)) % 256
        row == IF Bit(attributes, 7) = 1 THEN (height - 1 - row0) % 256 ELSE row0
        pattern_addr == sprite_table + MemGet(p.oam, i * 4 + 1) * 16 + row
        bit == IF Bit(attributes, 6) = 1 THEN col ELSE 7 - col
    IN  Bit(internal_read(p, pattern_addr + 8), bit) * 2
           + Bit(internal_read(p, pattern_addr), bit)

\* the three `continue`s: column col of sprite i is a non-transparent pixel
\* on the screen and not hidden by the left-column masking
sprite_pixel_shown(p, i, scanline, col) ==
    LET px == MemGet(p.oam, i * 4 + 3) + col
    IN  /\ sprite_pixel(p, i, scanline, col) # 0
        /\ px < 256
        /\ ~(~Contains(p.mask, MASK_SHOW_SPR_LEFT) /\ px < 8)

\* render_sprite_scanline, the sprite 0 hit test of one sprite against the row
\* drawn so far
sprite_hit(p, i, scanline, row) ==
    /\ i = 0
    /\ \E col \in 0..7 :
          LET px == MemGet(p.oam, 3) + col
          IN  /\ sprite_pixel_shown(p, 0, scanline, col)
              /\ px < 255
              /\ is_bg_pixel_opaque(p, row, px)

\* render_sprite_scanline, one sprite drawn over the row
draw_sprite(p, i, scanline, row) ==
    LET attributes == MemGet(p.oam, i * 4 + 2)
        sprite_x == MemGet(p.oam, i * 4 + 3)
    IN  [x \in 0..255 |->
            IF /\ x >= sprite_x /\ x < sprite_x + 8
               /\ sprite_pixel_shown(p, i, scanline, x - sprite_x)
               /\ ~(Bit(attributes, 5) = 1 /\ is_bg_pixel_opaque(p, row, x))
            THEN SYSTEM_PALETTE(p.palette_ram[(((attributes % 4) + 4) * 4
                                   + sprite_pixel(p, i, scanline, x - sprite_x)) % 32] % 64)
            ELSE row[x]]

\* sprite evaluation: the first eight sprites that cover the scanline
sprite_indices(p, scanline) ==
    LET on_line == {i \in 0..63 : SpriteOnLine(p, i, scanline)}
    IN  {i \in on_line : Cardinality({j \in on_line : j < i}) < 8}

SetMax(S) == CHOOSE i \in S : \A j \in S : j <= i

\* render_sprite_scanline, the drawing loop over the slots in reverse order:
\* whether the sprite 0 hit test succeeded
RECURSIVE render_sprites(_, _, _, _)
render_sprites(p, scanline, slots, row) ==
    IF slots = {} THEN FALSE
    ELSE \/ sprite_hit(p, SetMax(slots), scanline, row)
         \/ render_sprites(p, scanline, slots \ {SetMax(slots)},
                           draw_sprite(p, SetMax(slots), scanline, row))

\* render_scanline as far as the sprite 0 hit goes: the row is cleared to
\* the universal background colour, the background is drawn if shown, and
\* the sprites are drawn if shown
sprite_zero_hit(p, scanline) ==
    LET clear == [x \in 0..255 |-> backdrop(p)]
    IN  /\ Contains(p.mask, MASK_SHOW_SPR)
        /\ render_sprites(p, scanline, sprite_indices(p, scanline),
                          IF Contains(p.mask, MASK_SHOW_BG)
                          THEN render_bg_scanline(p, clear) ELSE clear)

-----------------------------------------------------------------------------
(* PPU register file (ppu/mod.rs): addr is 0x2000..0x2007                  *)

\* Ppu::cpu_read, the PPUSTATUS arm, leaving the write toggle alone
read_status_keep_w(p) ==
    [ppu |-> [p EXCEPT !.status = BitClear(p.status, VBLANK)],
     val |-> BitOr(p.status, p.read_buffer % 32)]

\* Ppu::cpu_read, the PPUSTATUS arm
read_status(p) ==
    [ppu |-> [p EXCEPT !.status = BitClear(p.status, VBLANK), !.w = FALSE],
     val |-> BitOr(p.status, p.read_buffer % 32)]

\* Ppu::cpu_read, the PPUDATA arm, without the read buffer
read_data_unbuffered(p) ==
    [ppu |-> [p EXCEPT !.v = ((p.v + vram_increment(p.ctrl)) % 65536) % 16384,
                       !.read_buffer = internal_read(p, p.v)],
     val |-> internal_read(p, p.v)]

\* Ppu::cpu_read, the PPUDATA arm
read_data(p) ==
    LET a == p.v
        p1 == [p EXCEPT !.v = ((p.v + vram_increment(p.ctrl)) % 65536) % 16384]
    IN  IF a >= 16128
        THEN [ppu |-> [p1 EXCEPT !.read_buffer = internal_read(p1, a - 4096)],
              val |-> palette_read(p1, a)]
        ELSE [ppu |-> [p1 EXCEPT !.read_buffer = internal_read(p1, a)],
              val |-> p.read_buffer]

\* Ppu::cpu_read: the PPU after the read and the byte returned
PpuCpuRead(p, addr) ==
    CASE addr = 8194 -> read_status(p)
      [] addr = 8196 -> [ppu |-> p, val |-> MemGet(p.oam, p.oam_addr)]
      [] addr = 8199 -> read_data(p)
      [] OTHER -> [ppu |-> p, val |-> 0]

\* the PPUCTRL arm raising the NMI whenever the written value enables it in
\* vblank, whatever the enable bit was
write_ctrl_level(p, val) ==
    [p EXCEPT !.ctrl = val,
              !.nmi_pending = IF Contains(val, CTRL_NMI_ENABLE) /\ Contains(p.status, VBLANK)
                              THEN TRUE ELSE @,
              !.t = BitOr(BitAnd(p.t, 62463), (val % 4) * 1024)]

\* Ppu::cpu_write, the PPUCTRL arm
write_ctrl(p, val) ==
    LET was_nmi == Contains(p.ctrl, CTRL_NMI_ENABLE)
        raise == ~was_nmi /\ Contains(val, CTRL_NMI_ENABLE)
                 /\ Contains(p.status, VBLANK)
    IN  [p EXCEPT !.ctrl = val,
                  !.nmi_pending = IF raise THEN TRUE ELSE @,
                  !.t = BitOr(BitAnd(p.t, 62463), (val % 4) * 1024)]

\* Ppu::cpu_write, the PPUSCROLL arm
write_scroll(p, val) ==
    IF ~p.w
    THEN [p EXCEPT !.scroll_x = val, !.fine_x = val % 8,
                   !.t = BitOr(BitAnd(p.t, 65504), val \div 8),
                   !.w = TRUE]
    ELSE [p EXCEPT !.scroll_y = val,
                   !.t = BitOr(BitOr(BitAnd(p.t, 35871), (val % 8) * 4096),
                               (val \div 8) * 32),
                   !.w = FALSE]

\* Ppu::cpu_write, the PPUADDR arm
write_addr(p, val) ==
    IF ~p.w
    THEN [p EXCEPT !.t = BitOr(BitAnd(p.t, 255), (val % 64) * 256), !.w = TRUE]
    ELSE LET t1 == BitOr(BitAnd(p.t, 65280), val)
         IN  [p EXCEPT !.t = t1, !.v = t1, !.w = FALSE]

\* Ppu::cpu_write, the PPUDATA arm, without the 14-bit mask of v
write_data_unmasked(p, val) ==
    LET a == p.v
        p1 == [p EXCEPT !.v = (p.v + vram_increment(p.ctrl)) % 65536]
    IN  internal_write(p1, a, val)

\* Ppu::cpu_write, the PPUDATA arm
write_data(p, val) ==
    LET a == p.v
        p1 == [p EXCEPT !.v = ((p.v + vram_increment(p.ctrl)) % 65536) % 16384]
    IN  internal_write(p1, a, val)

\* Ppu::cpu_write
PpuCpuWrite(p, addr, val) ==
    CASE addr = 8192 -> write_ctrl(p, val)
      [] addr = 8193 -> [p EXCEPT !.mask = val]
      [] addr = 8195 -> [p EXCEPT !.oam_addr = val]
      [] addr = 8196 ->
           [p EXCEPT !.oam = MemSet(@, p.oam_addr, val),
                     !.oam_addr = (p.oam_addr + 1) % 256]
      [] addr = 8197 -> write_scroll(p, val)
      [] addr = 8198 -> write_addr(p, val)
      [] addr = 8199 -> write_data(p, val)
      [] OTHER -> p

-----------------------------------------------------------------------------
(* Mapper 0 (cartridge/mapper.rs)                                          *)

Mapper0New(prg_rom, chr, mirroring) ==
    [prg_rom |-> prg_rom, chr |-> chr, mirroring |-> mirroring, prg_ram |-> MemNew]

\* Mapper0::cpu_read with the 32 KiB window never folded
MapperCpuReadFlat(m, addr) ==
    IF addr >= 24576 /\ addr <= 32767 THEN MemGet(m.prg_ram, addr - 24576)
    ELSE IF addr >= 32768 THEN VecGet(m.prg_rom, addr - 32768)
    ELSE 0

\* Mapper0::cpu_read, the index into prg_rom for addr in 0x8000..0xFFFF
prg_index(m, addr) ==
    IF m.prg_rom.len = 16384 THEN (addr - 32768) % 16384 ELSE addr - 32768

\* Mapper0::cpu_read; an index past the end of prg_rom panics in the source
\* (PrgRead follows that), and the programs of the model make no such read
MapperCpuRead(m, addr) ==
    IF addr >= 24576 /\ addr <= 32767 THEN MemGet(m.prg_ram, addr - 24576)
    ELSE IF addr >= 32768 THEN VecGet(m.prg_rom, prg_index(m, addr))
    ELSE 0

\* Mapper0::cpu_write writing PRG RAM from 0x4020 on
MapperCpuWriteLow(m, addr, val) ==
    IF addr >= 16416 /\ addr <= 32767
    THEN [m EXCEPT !.prg_ram = MemSet(@, addr % 8192, val)]
    ELSE m

MapperCpuWrite(m, addr, val) ==
    IF addr >= 24576 /\ addr <= 32767
    THEN [m EXCEPT !.prg_ram = MemSet(@, addr - 24576, val)]
    ELSE m

-----------------------------------------------------------------------------
(* APU (apu/mod.rs, apu/pulse.rs, apu/triangle.rs, apu/noise.rs): the     *)
(* frame counter, the cycle parity and, of each sound channel, the enable  *)
(* flag and the length counter with its halt flag.  `clocks` counts the    *)
(* calls of quarter_frame, of half_frame and of each channel's tick_timer; *)
(* timers, envelopes, sweeps and the mixer are not followed.               *)

\* pulse::LENGTH_TABLE, entry i at position i + 1
LENGTH_TABLE ==
    <<10, 254, 20, 2, 40, 4, 80, 6, 160, 8, 60, 10, 14, 12, 26, 14,
      12, 16, 24, 18, 48, 20, 96, 22, 192, 24, 72, 26, 16, 28, 32, 30>>

\* Pulse::new / Triangle::new / Noise::new
ChannelNew == [enabled |-> FALSE, length_counter |-> 0, length_halt |-> FALSE]

NOISE_PERIOD_TABLE ==
    <<4, 8, 16, 32, 64, 96, 128, 160, 202, 254, 380, 508, 762, 1016, 2034, 4068>>

\* Noise::new (the envelope is not followed)
NoiseNew ==
    [enabled |-> FALSE, length_counter |-> 0, length_halt |-> FALSE,
     timer_period |-> 0, timer_counter |-> 0, shift_register |-> 1, mode |-> FALSE]

\* Noise::write_period ($400E)
write_period(ch, val) ==
    [ch EXCEPT !.mode = val >= 128, !.timer_period = NOISE_PERIOD_TABLE[(val % 16) + 1]]

\* the shift register clocked with the and of the two bits as feedback
lfsr_clock_and(sr, mode) ==
    LET feedback == (sr % 2) * ((sr \div (IF mode THEN 64 ELSE 2)) % 2)
        shifted == sr \div 2
    IN  IF feedback = 1 /\ (shifted \div 16384) % 2 = 0 THEN shifted + 16384 ELSE shifted

\* Noise::tick_timer, `// Clock LFSR`: the new value of the 16-bit register
lfsr_clock(sr, mode) ==
    LET feedback == ((sr % 2) + ((sr \div (IF mode THEN 64 ELSE 2)) % 2)) % 2
        shifted == sr \div 2
    IN  IF feedback = 1 /\ (shifted \div 16384) % 2 = 0 THEN shifted + 16384 ELSE shifted

\* Noise::tick_timer
noise_tick_timer(ch) ==
    IF ch.timer_counter = 0
    THEN [ch EXCEPT !.timer_counter = ch.timer_period,
                    !.shift_register = lfsr_clock(@, ch.mode)]
    ELSE [ch EXCEPT !.timer_counter = @ - 1]

\* Triangle::new
TriangleNew ==
    [enabled |-> FALSE, length_counter |-> 0, length_halt |-> FALSE,
     linear_counter |-> 0, linear_period |-> 0, linear_reload |-> FALSE]

\* Apu::new
ApuNew ==
    [pulse1 |-> ChannelNew, pulse2 |-> ChannelNew, triangle |-> TriangleNew,
     noise |-> NoiseNew,
     frame_counter_mode |-> 0, frame_counter |-> 0, irq_inhibit |-> TRUE,
     odd_cycle |-> FALSE,
     clocks |-> [quarter |-> 0, half |-> 0, triangle |-> 0, pulse1 |-> 0,
                 pulse2 |-> 0, noise |-> 0]]

\* Pulse::write_control / Noise::write_control (bit 5) and
\* Triangle::write_linear (bit 7): the length halt flag
write_halt(ch, val, bit) == [ch EXCEPT !.length_halt = BitAnd(val, bit) # 0]

\* the length counter loaded whether or not the channel is enabled
write_length_always(ch, val) ==
    [ch EXCEPT !.length_counter = LENGTH_TABLE[(val \div 8) + 1]]

\* Pulse::write_timer_hi / Triangle::write_timer_hi / Noise::write_length: the
\* length counter
write_length(ch, val) ==
    IF ch.enabled
    THEN [ch EXCEPT !.length_counter = LENGTH_TABLE[(val \div 8) + 1]]
    ELSE ch

\* Pulse::tick_length / Triangle::tick_length / Noise::tick_length
tick_length(ch) ==
    IF ~ch.length_halt /\ ch.length_counter > 0
    THEN [ch EXCEPT !.length_counter = @ - 1]
    ELSE ch

\* $4008 setting the linear counter's reload flag as well
write_linear_reload(ch, val) ==
    [ch EXCEPT !.length_halt = BitAnd(val, 128) # 0, !.linear_period = val % 128,
               !.linear_reload = TRUE]

\* Triangle::write_linear ($4008)
write_linear(ch, val) ==
    [ch EXCEPT !.length_halt = BitAnd(val, 128) # 0, !.linear_period = val % 128]

\* Triangle::write_timer_hi ($400B): the length counter and the reload flag
triangle_write_timer_hi(ch, val) == [write_length(ch, val) EXCEPT !.linear_reload = TRUE]

\* Triangle::tick_linear
tick_linear(ch) ==
    [ch EXCEPT !.linear_counter = IF ch.linear_reload THEN ch.linear_period
                                  ELSE IF @ > 0 THEN @ - 1 ELSE @,
               !.linear_reload = IF ~ch.length_halt THEN FALSE ELSE @]

\* Apu::quarter_frame (the envelopes are not followed)
quarter_frame(a) == [a EXCEPT !.clocks.quarter = @ + 1, !.triangle = tick_linear(@)]

\* Apu::half_frame
half_frame(a) ==
    [a EXCEPT !.clocks.half = @ + 1,
              !.pulse1 = tick_length(@), !.pulse2 = tick_length(@),
              !.triangle = tick_length(@), !.noise = tick_length(@)]

\* Apu::cpu_write ($4000..$4013)
ApuCpuWrite(a, addr, val) ==
    CASE addr = 16384 -> [a EXCEPT !.pulse1 = write_halt(@, val, 32)]
      [] addr = 16387 -> [a EXCEPT !.pulse1 = write_length(@, val)]
      [] addr = 16388 -> [a EXCEPT !.pulse2 = write_halt(@, val, 32)]
      [] addr = 16391 -> [a EXCEPT !.pulse2 = write_length(@, val)]
      [] addr = 16392 -> [a EXCEPT !.triangle = write_linear(@, val)]
      [] addr = 16395 -> [a EXCEPT !.triangle = triangle_write_timer_hi(@, val)]
      [] addr = 16396 -> [a EXCEPT !.noise = write_halt(@, val, 32)]
      [] addr = 16398 -> [a EXCEPT !.noise = write_period(@, val)]
      [] addr = 16399 -> [a EXCEPT !.noise = write_length(@, val)]
      [] OTHER -> a

\* Apu::write_status, one channel: enabled from its bit, length zeroed when off
write_enabled(ch, val, bit) ==
    [ch EXCEPT !.enabled = BitAnd(val, bit) # 0,
               !.length_counter = IF BitAnd(val, bit) # 0 THEN @ ELSE 0]

\* Apu::write_status ($4015)
ApuWriteStatus(a, val) ==
    [a EXCEPT !.pulse1 = write_enabled(@, val, 1), !.pulse2 = write_enabled(@, val, 2),
              !.triangle = write_enabled(@, val, 4), !.noise = write_enabled(@, val, 8)]

\* $4015 reporting the enable flags
ApuReadStatusEnabled(a) ==
    (IF a.pulse1.enabled THEN 1 ELSE 0) + (IF a.pulse2.enabled THEN 2 ELSE 0)
    + (IF a.triangle.enabled THEN 4 ELSE 0) + (IF a.noise.enabled THEN 8 ELSE 0)

\* Apu::read_status ($4015): the byte returned; no field is assigned
ApuReadStatus(a) ==
    (IF a.pulse1.length_counter > 0 THEN 1 ELSE 0)
    + (IF a.pulse2.length_counter > 0 THEN 2 ELSE 0)
    + (IF a.triangle.length_counter > 0 THEN 4 ELSE 0)
    + (IF a.noise.length_counter > 0 THEN 8 ELSE 0)

\* the frame counter restarting one tick early
clock_4step_early(a) ==
    CASE a.frame_counter = 3729 -> quarter_frame(a)
      [] a.frame_counter = 7457 -> half_frame(quarter_frame(a))
      [] a.frame_counter = 11186 -> quarter_frame(a)
      [] a.frame_counter = 14914 ->
           [half_frame(quarter_frame(a)) EXCEPT !.frame_counter = 0]
      [] OTHER -> a

\* Apu::clock_4step
clock_4step(a) ==
    CASE a.frame_counter = 3729 -> quarter_frame(a)
      [] a.frame_counter = 7457 -> half_frame(quarter_frame(a))
      [] a.frame_counter = 11186 -> quarter_frame(a)
      [] a.frame_counter = 14915 ->
           [half_frame(quarter_frame(a)) EXCEPT !.frame_counter = 0]
      [] OTHER -> a

\* Apu::clock_5step
clock_5step(a) ==
    CASE a.frame_counter = 3729 -> quarter_frame(a)
      [] a.frame_counter = 7457 -> half_frame(quarter_frame(a))
      [] a.frame_counter = 11186 -> quarter_frame(a)
      [] a.frame_counter = 18641 ->
           [half_frame(quarter_frame(a)) EXCEPT !.frame_counter = 0]
      [] OTHER -> a

\* Apu::clock_frame_counter
clock_frame_counter(a) ==
    IF a.frame_counter_mode = 0 THEN clock_4step(a)
    ELSE IF a.frame_counter_mode = 1 THEN clock_5step(a)
    ELSE a

\* the pulse and noise timers clocked on every tick
tick_timers_every(a) ==
    [a EXCEPT !.clocks.triangle = @ + 1, !.odd_cycle = ~@,
              !.clocks.pulse1 = @ + 1, !.clocks.pulse2 = @ + 1, !.clocks.noise = @ + 1,
              !.noise = noise_tick_timer(@)]

\* Apu::tick, the timers: the triangle's on every tick, those of the pulses
\* and the noise when the toggled parity is odd
tick_timers(a) ==
    IF ~a.odd_cycle
    THEN [a EXCEPT !.clocks.triangle = @ + 1, !.odd_cycle = TRUE,
                   !.clocks.pulse1 = @ + 1, !.clocks.pulse2 = @ + 1,
                   !.clocks.noise = @ + 1, !.noise = noise_tick_timer(@)]
    ELSE [a EXCEPT !.clocks.triangle = @ + 1, !.odd_cycle = FALSE]

\* Apu::tick (mixing and the sample queue left out)
ApuTick(a) ==
    clock_frame_counter([tick_timers(a) EXCEPT !.frame_counter = (@ + 1) % 65536])

\* the loop `for _ in 0..cpu_cycles { apu.tick() }`
RECURSIVE ApuTickN(_, _)
ApuTickN(a, n) == IF n = 0 THEN a ELSE ApuTickN(ApuTick(a), n - 1)

\* the immediate clock issued in either mode
write_frame_counter_clock_always(a) == half_frame(quarter_frame(a))

\* Apu::write_frame_counter, the immediate clock of the 5-step mode
write_frame_counter_clock(a) ==
    IF a.frame_counter_mode = 1 THEN half_frame(quarter_frame(a)) ELSE a

\* Apu::write_frame_counter ($4017)
write_frame_counter(a, val) ==
    write_frame_counter_clock(
        [a EXCEPT !.frame_counter_mode = (val \div 128) % 2,
                  !.irq_inhibit = BitAnd(val, 64) # 0,
                  !.frame_counter = 0])

-----------------------------------------------------------------------------
(* Bus (bus.rs)                                                            *)

\* Mapper0::chr_read
chr_read(m, addr) == VecGet(m.chr, addr)

\* Mapper0::chr_write
chr_write(m, addr, val) == [m EXCEPT !.chr = VecSet(@, addr, val)]

\* Bus::new
BusOfCart(cartridge) ==
    [ram |-> MemNew,
     ppu |-> PpuNew(cartridge.chr_rom, cartridge.mirroring),
     mapper |-> Mapper0New(cartridge.prg_rom, cartridge.chr_rom, cartridge.mirroring),
     apu |-> ApuNew,
     controller1 |-> ControllerNew,
     controller2 |-> ControllerNew,
     cycles |-> 0]

\* Bus::new on the cartridge of a program image
BusNew(rom) == BusOfCart(ProgramCart(rom))

\* Bus::cpu_read: the bus after the read and the byte returned
BusCpuRead(b, addr) ==
    IF addr <= 8191 THEN [bus |-> b, val |-> MemGet(b.ram, addr % 2048)]
    ELSE IF addr <= 16383
    THEN LET r == PpuCpuRead(b.ppu, 8192 + (addr % 8))
         IN  [bus |-> [b EXCEPT !.ppu = r.ppu], val |-> r.val]
    ELSE IF addr = 16405 THEN [bus |-> b, val |-> ApuReadStatus(b.apu)]
    ELSE IF addr = 16406
    THEN LET r == ControllerRead(b.controller1)
         IN  [bus |-> [b EXCEPT !.controller1 = r.c], val |-> r.val]
    ELSE IF addr = 16407
    THEN LET r == ControllerRead(b.controller2)
         IN  [bus |-> [b EXCEPT !.controller2 = r.c], val |-> r.val]
    ELSE IF addr <= 16415 THEN [bus |-> b, val |-> 0]
    ELSE [bus |-> b, val |-> MapperCpuRead(b.mapper, addr)]

\* one pass of the loop of Bus::oam_dma, storing at OAM entry i whatever OAMADDR is
oam_dma_byte_from_zero(b, base, i) ==
    LET r == BusCpuRead(b, base + i)
    IN  [r.bus EXCEPT !.ppu.oam = MemSet(@, i, r.val)]

\* one pass of the loop of Bus::oam_dma: byte i of the page at base
oam_dma_byte(b, base, i) ==
    LET r == BusCpuRead(b, base + i)
    IN  [r.bus EXCEPT !.ppu.oam =
            MemSet(@, (r.bus.ppu.oam_addr + i) % 256, r.val)]

\* Bus::oam_dma, the passes lo..hi of the loop in order.  The range is halved
\* and the bus after the first half is compared with itself, which makes the
\* evaluation finish that half before the second one starts.
RECURSIVE oam_dma(_, _, _, _)
oam_dma(b, base, lo, hi) ==
    IF lo = hi THEN oam_dma_byte(b, base, lo)
    ELSE LET h == oam_dma(b, base, lo, (lo + hi) \div 2)
         IN  IF h = h THEN oam_dma(h, base, ((lo + hi) \div 2) + 1, hi) ELSE h

\* the strobe write reaching both controllers, as on the hardware
write_strobe_both(b, val) ==
    [b EXCEPT !.controller1 = ControllerWrite(@, val),
              !.controller2 = ControllerWrite(@, val)]

\* Bus::cpu_write, the 0x4016 arm
write_strobe(b, val) == [b EXCEPT !.controller1 = ControllerWrite(@, val)]

\* Bus::cpu_write
BusCpuWrite(b, addr, val) ==
    IF addr <= 8191 THEN [b EXCEPT !.ram = MemSet(@, addr % 2048, val)]
    ELSE IF addr <= 16383 THEN [b EXCEPT !.ppu = PpuCpuWrite(@, 8192 + (addr % 8), val)]
    ELSE IF addr = 16404 THEN oam_dma(b, val * 256, 0, 255)
    ELSE IF addr <= 16403 THEN [b EXCEPT !.apu = ApuCpuWrite(@, addr, val)]
    ELSE IF addr = 16405 THEN [b EXCEPT !.apu = ApuWriteStatus(@, val)]
    ELSE IF addr = 16406 THEN write_strobe(b, val)
    ELSE IF addr = 16407 THEN [b EXCEPT !.apu = write_frame_counter(@, val)]
    ELSE IF addr <= 16415 THEN b
    ELSE [b EXCEPT !.mapper = MapperCpuWrite(@, addr, val)]

\* two bus reads assembled low byte first, as the interrupt-vector fetches do
BusRead16Done(lo, hi) == [bus |-> hi.bus, val |-> hi.val * 256 + lo.val]

BusRead16Hi(lo, addr) == BusRead16Done(lo, BusCpuRead(lo.bus, (addr + 1) % 65536))

BusRead16(b, addr) == BusRead16Hi(BusCpuRead(b, addr), addr)

-----------------------------------------------------------------------------
(* CPU (cpu/mod.rs, cpu/addressing.rs)                                     *)

FLAG_CARRY == 1
FLAG_ZERO == 2
FLAG_IRQ_DIS == 4
FLAG_BREAK == 16
FLAG_BREAK2 == 32
FLAG_NEGATIVE == 128

CpuNew == [a |-> 0, x |-> 0, y |-> 0, sp |-> 253, pc |-> 0, status |-> 36,
           cycles |-> 0, stall |-> 0]

\* Cpu::reset, after the vector fetch vec
reset_done(c, vec) ==
    [cpu |-> [c EXCEPT !.a = 0, !.x = 0, !.y = 0, !.sp = 253, !.status = 36,
                       !.pc = vec.val, !.cycles = 7],
     bus |-> vec.bus]

\* Cpu::reset: the CPU and the bus after it
CpuReset(c, b) == reset_done(c, BusRead16(b, 65532))

\* Cpu::push
push(c, b, val) ==
    [cpu |-> [c EXCEPT !.sp = (c.sp + 255) % 256],
     bus |-> BusCpuWrite(b, 256 + c.sp, val)]

\* Cpu::pull, after the bus read r
pulled(c, r) == [cpu |-> [c EXCEPT !.sp = (c.sp + 1) % 256], bus |-> r.bus, val |-> r.val]

\* Cpu::pull reading before the increment
pull_post_increment(c, b) == pulled(c, BusCpuRead(b, 256 + c.sp))

\* Cpu::pull
pull(c, b) == pulled(c, BusCpuRead(b, 256 + ((c.sp + 1) % 256)))

\* Cpu::push_u16, the low byte after the high byte went in as hi
push_u16_lo(hi, val) == push(hi.cpu, hi.bus, val % 256)

\* Cpu::push_u16
push_u16(c, b, val) == push_u16_lo(push(c, b, val \div 256), val)

pull_u16_done(lo, hi) == [cpu |-> hi.cpu, bus |-> hi.bus, val |-> hi.val * 256 + lo.val]

\* Cpu::pull_u16, the high byte after the low byte came out as lo
pull_u16_hi(lo) == pull_u16_done(lo, pull(lo.cpu, lo.bus))

\* Cpu::pull_u16
pull_u16(c, b) == pull_u16_hi(pull(c, b))

\* Cpu::nmi, after the pushes p2 and the vector fetch vec
nmi_done(c, p2, vec) ==
    [cpu |-> [p2.cpu EXCEPT !.status = BitOr(c.status, FLAG_IRQ_DIS),
                            !.pc = vec.val, !.cycles = @ + 7],
     bus |-> vec.bus]

\* Cpu::nmi, the vector fetch
nmi_vector(c, p2) == nmi_done(c, p2, BusRead16(p2.bus, 65530))

\* Cpu::nmi, the push of the flags (bit 5 set, bit 4 clear) after that of pc
nmi_flags(c, p1) ==
    nmi_vector(c, push(p1.cpu, p1.bus,
                       BitClear(BitOr(c.status, FLAG_BREAK2), FLAG_BREAK)))

\* Cpu::nmi
CpuNmi(c, b) == nmi_flags(c, push_u16(c, b, c.pc))

\* Cpu::irq, the vector fetch
irq_vector(c, p2) == nmi_done(c, p2, BusRead16(p2.bus, 65534))

\* Cpu::irq, the push of the flags (bit 5 set, bit 4 clear) after that of pc
irq_flags(c, p1) ==
    irq_vector(c, push(p1.cpu, p1.bus,
                       BitClear(BitOr(c.status, FLAG_BREAK2), FLAG_BREAK)))

\* Cpu::irq entering whatever IRQ_DISABLE is
CpuIrqUnmasked(c, b) == irq_flags(c, push_u16(c, b, c.pc))

\* Cpu::irq
CpuIrq(c, b) ==
    IF Contains(c.status, FLAG_IRQ_DIS) THEN [cpu |-> c, bus |-> b]
    ELSE irq_flags(c, push_u16(c, b, c.pc))

\* bitflags' set()
SetFlag(status, flag, on) == IF on THEN BitOr(status, flag) ELSE BitClear(status, flag)

update_zero_negative(status, val) ==
    SetFlag(SetFlag(status, FLAG_ZERO, val = 0), FLAG_NEGATIVE, val >= 128)

pages_differ(a, b) == (a \div 256) # (b \div 256)

\* Cpu::branch after the read r of the offset byte
branch_offset(c, r, condition) ==
    LET offset == IF r.val >= 128 THEN r.val - 256 ELSE r.val
        pc1 == (c.pc + 1) % 65536
        new_pc == (pc1 + offset) % 65536
    IN  IF condition
        THEN [cpu |-> [c EXCEPT !.pc = new_pc], bus |-> r.bus,
              extra |-> IF pages_differ(pc1, new_pc) THEN 2 ELSE 1]
        ELSE [cpu |-> [c EXCEPT !.pc = pc1], bus |-> r.bus, extra |-> 0]

\* Cpu::branch: the CPU and bus after it and the extra cycles
branch(c, b, condition) == branch_offset(c, BusCpuRead(b, c.pc), condition)

\* addressing::resolve, Absolute, with the operand word w
resolve_absolute(c, w) ==
    [cpu |-> [c EXCEPT !.pc = (c.pc + 2) % 65536], bus |-> w.bus,
     addr |-> w.val, extra |-> 0]

\* addressing::resolve, AbsoluteX, with the operand word w
resolve_absolute_x(c, w) ==
    [cpu |-> [c EXCEPT !.pc = (c.pc + 2) % 65536], bus |-> w.bus,
     addr |-> (w.val + c.x) % 65536,
     extra |-> IF pages_differ(w.val, (w.val + c.x) % 65536) THEN 1 ELSE 0]

\* addressing::resolve for the modes of the modelled opcodes
resolve(c, b, mode) ==
    CASE mode = "Immediate" ->
           [cpu |-> [c EXCEPT !.pc = (c.pc + 1) % 65536], bus |-> b,
            addr |-> c.pc, extra |-> 0]
      [] mode = "Absolute" -> resolve_absolute(c, BusRead16(b, c.pc))
      [] mode = "AbsoluteX" -> resolve_absolute_x(c, BusRead16(b, c.pc))
      [] OTHER -> [cpu |-> c, bus |-> b, addr |-> 0, extra |-> 0]

\* opcodes::OPCODES, the entries of the modelled opcodes: addressing mode
OpMode(opcode) ==
    CASE opcode \in {169, 162} -> "Immediate"
      [] opcode \in {173, 141, 76} -> "Absolute"
      [] opcode = 189 -> "AbsoluteX"
      [] opcode \in {208, 240} -> "Relative"
      [] OTHER -> "Implied"

\* opcodes::OPCODES, the entries of the modelled opcodes: base cycles
OpCycles(opcode) ==
    CASE opcode \in {234, 169, 162, 208, 240} -> 2
      [] opcode = 76 -> 3
      [] opcode \in {173, 189, 141} -> 4
      [] opcode \in {56, 88, 154} -> 2
      [] opcode \in {72, 8} -> 3
      [] opcode \in {104, 40} -> 4
      [] opcode \in {64, 32, 96} -> 6
      [] opcode = 0 -> 7

\* Cpu::execute, LDA: the operand m read at the resolved address r
exec_lda(r, m, cyc) ==
    [cpu |-> [r.cpu EXCEPT !.a = m.val, !.status = update_zero_negative(@, m.val)],
     bus |-> m.bus, cycles |-> cyc, extra |-> r.extra]

\* Cpu::execute, LDX
exec_ldx(r, m, cyc) ==
    [cpu |-> [r.cpu EXCEPT !.x = m.val, !.status = update_zero_negative(@, m.val)],
     bus |-> m.bus, cycles |-> cyc, extra |-> r.extra]

\* Cpu::execute, STA
exec_sta(r, cyc) ==
    [cpu |-> r.cpu, bus |-> BusCpuWrite(r.bus, r.addr, r.cpu.a),
     cycles |-> cyc, extra |-> 0]

\* Cpu::execute, BNE / BEQ after Cpu::branch returned r
exec_branch(r, cyc) == [cpu |-> r.cpu, bus |-> r.bus, cycles |-> cyc, extra |-> r.extra]

\* Cpu::execute, JMP absolute to the word t
exec_jmp(c, t, cyc) ==
    [cpu |-> [c EXCEPT !.pc = t.val], bus |-> t.bus, cycles |-> cyc, extra |-> 0]

\* Cpu::execute, JSR after the push p of the return address: pc = target t
exec_jsr_pushed(p, t, cyc) ==
    [cpu |-> [p.cpu EXCEPT !.pc = t.val], bus |-> p.bus, cycles |-> cyc, extra |-> 0]

\* JSR pushing the address of the next instruction
exec_jsr_next(c, t, cyc) ==
    exec_jsr_pushed(push_u16(c, t.bus, (c.pc + 2) % 65536), t, cyc)

\* Cpu::execute, JSR to the operand word t, pc being at the operand: pushes
\* pc + 1, the address of the last byte of the instruction
exec_jsr(c, t, cyc) ==
    exec_jsr_pushed(push_u16(c, t.bus, (c.pc + 1) % 65536), t, cyc)

\* Cpu::execute, RTS after pull_u16 returned r
exec_rts(r, cyc) ==
    [cpu |-> [r.cpu EXCEPT !.pc = (r.val + 1) % 65536], bus |-> r.bus,
     cycles |-> cyc, extra |-> 0]

\* RTI taking bit 4 of the pulled byte as well
exec_rti_pc_break(c, f, r, cyc) ==
    [cpu |-> [r.cpu EXCEPT !.status = BitOr(BitAnd(f.val, 223), FLAG_BREAK2),
                           !.pc = r.val],
     bus |-> r.bus, cycles |-> cyc, extra |-> 0]

\* Cpu::execute, RTI: flags f pulled (bits 4, 5 kept, bit 5 set), then pc
exec_rti_pc(c, f, r, cyc) ==
    [cpu |-> [r.cpu EXCEPT
                !.status = BitOr(BitOr(BitAnd(f.val, 207), BitAnd(c.status, 48)),
                                 FLAG_BREAK2),
                !.pc = r.val],
     bus |-> r.bus, cycles |-> cyc, extra |-> 0]

exec_rti(c, f, cyc) == exec_rti_pc(c, f, pull_u16(f.cpu, f.bus), cyc)

\* Cpu::execute, PHA / PHP after Cpu::push returned p
exec_pushed(p, cyc) == [cpu |-> p.cpu, bus |-> p.bus, cycles |-> cyc, extra |-> 0]

\* Cpu::execute, PLA after Cpu::pull returned f
exec_pla(f, cyc) ==
    [cpu |-> [f.cpu EXCEPT !.a = f.val, !.status = update_zero_negative(@, f.val)],
     bus |-> f.bus, cycles |-> cyc, extra |-> 0]

\* PLP taking the pulled byte as the status
exec_plp_all(f, cyc) ==
    [cpu |-> [f.cpu EXCEPT !.status = f.val], bus |-> f.bus, cycles |-> cyc, extra |-> 0]

\* Cpu::execute, PLP after Cpu::pull returned f: bits 4, 5 kept, bit 5 set
exec_plp(f, cyc) ==
    [cpu |-> [f.cpu EXCEPT
                !.status = BitOr(BitOr(BitAnd(f.val, 207), BitAnd(@, 48)), FLAG_BREAK2)],
     bus |-> f.bus, cycles |-> cyc, extra |-> 0]

\* Cpu::execute, BRK after the pushes p2 and the vector fetch vec
brk_done(p2, vec, cyc) ==
    [cpu |-> [p2.cpu EXCEPT !.status = BitOr(@, FLAG_IRQ_DIS), !.pc = vec.val],
     bus |-> vec.bus, cycles |-> cyc, extra |-> 0]

\* Cpu::execute, BRK: the push of the flags (bits 4, 5 set) after that of pc
brk_flags(p1, cyc) ==
    brk_done(push(p1.cpu, p1.bus, BitOr(p1.cpu.status, 48)),
             BusRead16(push(p1.cpu, p1.bus, BitOr(p1.cpu.status, 48)).bus, 65534), cyc)

\* Cpu::execute, BRK with pc already past the padding byte
exec_brk(c, b, cyc) == brk_flags(push_u16(c, b, c.pc), cyc)

\* the operand read of a load at the resolved address r
exec_load_a(r, cyc) == exec_lda(r, BusCpuRead(r.bus, r.addr), cyc)

exec_load_x(r, cyc) == exec_ldx(r, BusCpuRead(r.bus, r.addr), cyc)

\* Cpu::execute for NOP, LDA #/abs/abs,X, LDX #, STA abs, JMP abs, JSR, RTS,
\* RTI, BNE, BEQ, PHA, PHP, PLA, PLP, TXS, CLI, SEC, BRK: the CPU and bus after it, the
\* base cycles and the extra cycles
execute(c, b, opcode) ==
    CASE opcode \in {169, 173, 189} ->
           exec_load_a(resolve(c, b, OpMode(opcode)), OpCycles(opcode))
      [] opcode = 162 -> exec_load_x(resolve(c, b, OpMode(opcode)), OpCycles(opcode))
      [] opcode = 141 -> exec_sta(resolve(c, b, OpMode(opcode)), OpCycles(opcode))
      [] opcode = 208 ->
           exec_branch(branch(c, b, ~Contains(c.status, FLAG_ZERO)), OpCycles(opcode))
      [] opcode = 240 ->
           exec_branch(branch(c, b, Contains(c.status, FLAG_ZERO)), OpCycles(opcode))
      [] opcode = 76 -> exec_jmp(c, BusRead16(b, c.pc), OpCycles(opcode))
      [] opcode = 32 -> exec_jsr(c, BusRead16(b, c.pc), OpCycles(opcode))
      [] opcode = 96 -> exec_rts(pull_u16(c, b), OpCycles(opcode))
      [] opcode = 64 -> exec_rti(c, pull(c, b), OpCycles(opcode))
      [] opcode = 72 -> exec_pushed(push(c, b, c.a), OpCycles(opcode))
      [] opcode = 8 -> exec_pushed(push(c, b, BitOr(c.status, 48)), OpCycles(opcode))
      [] opcode = 104 -> exec_pla(pull(c, b), OpCycles(opcode))
      [] opcode = 40 -> exec_plp(pull(c, b), OpCycles(opcode))
      [] opcode = 154 ->
           [cpu |-> [c EXCEPT !.sp = c.x], bus |-> b, cycles |-> OpCycles(opcode),
            extra |-> 0]
      [] opcode = 88 ->
           [cpu |-> [c EXCEPT !.status = BitClear(@, FLAG_IRQ_DIS)], bus |-> b,
            cycles |-> OpCycles(opcode), extra |-> 0]
      [] opcode = 56 ->
           [cpu |-> [c EXCEPT !.status = BitOr(@, FLAG_CARRY)], bus |-> b,
            cycles |-> OpCycles(opcode), extra |-> 0]
      [] opcode = 0 ->
           exec_brk([c EXCEPT !.pc = (c.pc + 1) % 65536], b, OpCycles(opcode))
      [] opcode = 234 -> [cpu |-> c, bus |-> b, cycles |-> OpCycles(opcode), extra |-> 0]

\* Cpu::step after execute returned e for the opcode fetched at c.pc
step_done(c, e) ==
    [cpu |-> [e.cpu EXCEPT !.cycles = @ + e.cycles + e.extra], bus |-> e.bus,
     total |-> e.cycles + e.extra, fetch |-> c.pc]

\* Cpu::step after the opcode fetch o
step_fetched(c, o) ==
    step_done(c, execute([c EXCEPT !.pc = (c.pc + 1) % 65536], o.bus, o.val))

\* Cpu::step: the CPU and bus after it, the cycles returned and, when an
\* instruction was fetched, the address of its opcode (-1 on a stall cycle)
CpuStep(c, b) ==
    IF c.stall > 0
    THEN [cpu |-> [c EXCEPT !.stall = @ - 1, !.cycles = @ + 1], bus |-> b,
          total |-> 1, fetch |-> -1]
    ELSE step_fetched(c, BusCpuRead(b, c.pc))

-----------------------------------------------------------------------------
(* System driver (nes.rs)                                                  *)

StepLimit == 40000

\* step_frame calls the model follows
MaxFrames == 2

\* the loop `for _ in 0..n { ppu.tick() }`: the PPU after n ticks and
\* whether one of them reported frame completion
RECURSIVE TickN(_, _, _)
TickN(p, n, hit) ==
    IF n = 0 THEN [ppu |-> p, frame_complete |-> FALSE]
    ELSE LET r == PpuTick(p, hit)
             rest == TickN(r.ppu, n - 1, hit)
         IN  [ppu |-> rest.ppu,
              frame_complete |-> r.frame_complete \/ rest.frame_complete]

\* one PPU tick per CPU cycle
ppu_cycles_slow(cpu_cycles) == cpu_cycles

\* Nes::step: `let ppu_cycles = cpu_cycles as u16 * 3`
ppu_cycles(cpu_cycles) == (cpu_cycles * 3) % 65536

\* Nes::step's NMI entry without the reset of nmi_pending
nmi_entry_keep_pending(c, b) ==
    IF b.ppu.nmi_pending THEN CpuNmi(c, b) ELSE [cpu |-> c, bus |-> b]

\* Nes::step, `if self.bus.ppu.nmi_pending { ... }`
nmi_entry(c, b) ==
    IF b.ppu.nmi_pending
    THEN CpuNmi(c, [b EXCEPT !.ppu.nmi_pending = FALSE])
    ELSE [cpu |-> c, bus |-> b]

\* Nes::step: what the step returns and what happened on the way, from the
\* result s of Cpu::step, t of the PPU loop and n of the NMI entry
NesStepDone(s, t, n) ==
    [cpu |-> n.cpu, bus |-> n.bus, frame_complete |-> t.frame_complete,
     cpu_cycles |-> s.total, ppu_n |-> ppu_cycles(s.total), apu_n |-> s.total,
     fetch |-> s.fetch, mid |-> s.cpu, pending |-> t.ppu.nmi_pending]

\* Nes::step after the PPU loop
NesStepTicked(s, t) ==
    NesStepDone(s, t, nmi_entry(s.cpu, [s.bus EXCEPT !.ppu = t.ppu,
                                                     !.apu = ApuTickN(@, s.total)]))

\* Nes::step after Cpu::step
NesStepCpu(s, hit) == NesStepTicked(s, TickN(s.bus.ppu, ppu_cycles(s.total), hit))

\* Nes::step: the machine after it, the value returned (frame_complete) and
\* what happened on the way: cycles the instruction took, PPU and APU ticks
\* issued, the CPU as Cpu::step left it, nmi_pending after the catch-up
NesStep(c, b, hit) == NesStepCpu(CpuStep(c, b), hit)

\* Nes::new followed by Nes::reset
NesInit(rom) == CpuReset(CpuNew, BusNew(rom))

InitObs ==
    /\ op = [kind |-> "init"]
    /\ ret = 0
    /\ latched = -1
    /\ nreads = 0
    /\ ppu_ticks = 0
    /\ apu_ticks = 0
    /\ sf_i = 0
    /\ sf_log = << >>
    /\ nops = 0
    /\ out = << >>

Init ==
    /\ \E rom \in RomNames :
          /\ cpu = NesInit(rom).cpu
          /\ bus = NesInit(rom).bus
    /\ InitObs
    /\ inp = << >>

\* One iteration of the loop of Nes::step_frame; the call returns true when
\* the step reports frame completion and false when the loop runs out.
StepFrame(hit) ==
    /\ Len(sf_log) < MaxFrames
    /\ \E r \in {NesStep(cpu, bus, hit)} :
       LET done == r.frame_complete \/ sf_i + 1 >= StepLimit
       IN  /\ cpu' = r.cpu
           /\ bus' = r.bus
           /\ ppu_ticks' = ppu_ticks + r.ppu_n
           /\ apu_ticks' = apu_ticks + r.apu_n
           /\ op' = [kind |-> "step", cpu_cycles |-> r.cpu_cycles, fetch |-> r.fetch,
                     mid |-> r.mid, pending |-> r.pending,
                     frame_complete |-> r.frame_complete]
           /\ sf_i' = IF done THEN 0 ELSE sf_i + 1
           /\ sf_log' = IF done
                        THEN Append(sf_log, [ok |-> r.frame_complete, steps |-> sf_i + 1,
                                             ticks |-> ppu_ticks + r.ppu_n,
                                             last |-> r.ppu_n])
                        ELSE sf_log
    /\ UNCHANGED <<ret, latched, nreads, nops, inp, out>>

Next == \E hit \in BOOLEAN : StepFrame(hit)

Spec == Init /\ [][Next]_vars

-----------------------------------------------------------------------------
(* The PPU on its own: a PPU whose PPUCTRL and PPUMASK were written once   *)
(* after construction, ticked through a frame and into the next.           *)

\* Ppu::tick calls the model follows: one frame and the start of the next
MaxTicks == 90000

TickCtrlVals == {0, CTRL_NMI_ENABLE}
TickMaskVals == {0, MASK_SHOW_SPR}

InitTick ==
    /\ cpu = CpuNew
    /\ \E c \in TickCtrlVals, m \in TickMaskVals :
          bus = [BusNew("idle") EXCEPT
                    !.ppu = PpuCpuWrite(PpuCpuWrite(@, 8192, c), 8193, m)]
    /\ InitObs
    /\ inp = << >>

\* Ppu::tick
Tick(hit) ==
    /\ ppu_ticks < MaxTicks
    /\ \E r \in {PpuTick(bus.ppu, hit)} :
          /\ bus' = [bus EXCEPT !.ppu = r.ppu]
          /\ op' = [kind |-> "tick", frame_complete |-> r.frame_complete]
    /\ ppu_ticks' = ppu_ticks + 1
    /\ UNCHANGED <<cpu, ret, latched, nreads, apu_ticks, sf_i, sf_log, nops, inp, out>>

NextTick == \E hit \in BOOLEAN : Tick(hit)

SpecTick == InitTick /\ [][NextTick]_vars

-----------------------------------------------------------------------------
(* The controller on its own: the frontend presses and releases keys of    *)
(* controller 1 while the program writes and reads the port.               *)

\* reads followed after a latch: the eight button bits and two more
MaxReads == 10

CtlWriteVals == {0, 1, 2, 3}

InitCtl ==
    /\ cpu = CpuNew
    /\ bus = BusNew("idle")
    /\ InitObs
    /\ inp = << >>

\* frontend::run, Event::KeyDown
KeyDown(k) ==
    /\ bus' = [bus EXCEPT !.controller1.buttons = BitOr(@, k)]
    /\ op' = [kind |-> "key"]
    /\ UNCHANGED <<cpu, ret, latched, nreads, ppu_ticks, apu_ticks, sf_i, sf_log, nops, inp, out>>

\* frontend::run, Event::KeyUp
KeyUp(k) ==
    /\ bus' = [bus EXCEPT !.controller1.buttons = BitClear(@, k)]
    /\ op' = [kind |-> "key"]
    /\ UNCHANGED <<cpu, ret, latched, nreads, ppu_ticks, apu_ticks, sf_i, sf_log, nops, inp, out>>

\* Controller::write; latched records the mask a 1->0 strobe captures
CtlWrite(val) ==
    /\ bus' = [bus EXCEPT !.controller1 = ControllerWrite(@, val)]
    /\ op' = [kind |-> "ctl_write", val |-> val]
    /\ latched' = IF val % 2 = 1 THEN -1
                  ELSE IF bus.controller1.strobe THEN bus.controller1.buttons
                  ELSE latched
    /\ nreads' = IF val % 2 = 1 \/ bus.controller1.strobe THEN 0 ELSE nreads
    /\ UNCHANGED <<cpu, ret, ppu_ticks, apu_ticks, sf_i, sf_log, nops, inp, out>>

\* Controller::read
CtlRead ==
    /\ nreads < MaxReads
    /\ \E r \in {ControllerRead(bus.controller1)} :
          /\ bus' = [bus EXCEPT !.controller1 = r.c]
          /\ ret' = r.val
    /\ op' = [kind |-> "ctl_read", strobe |-> bus.controller1.strobe]
    /\ nreads' = IF latched # -1 THEN nreads + 1 ELSE nreads
    /\ UNCHANGED <<cpu, latched, ppu_ticks, apu_ticks, sf_i, sf_log, nops, inp, out>>

NextCtl ==
    \/ \E k \in Keys : KeyDown(k)
    \/ \E k \in Keys : KeyUp(k)
    \/ \E val \in CtlWriteVals : CtlWrite(val)
    \/ CtlRead

SpecCtl == InitCtl /\ [][NextCtl]_vars

-----------------------------------------------------------------------------
(* The PPU register file through the bus: a program reading and writing    *)
(* the registers and their mirrors, starting from a PPU that is either     *)
(* fresh or inside vertical blank.                                         *)

\* register accesses the model follows
MaxRegOps == 6

\* PPUSTATUS at the start: fresh, in vblank, in vblank after sprite flags
RegInitStatus == {0, VBLANK, VBLANK + SPRITE_ZERO_HIT + SPRITE_OVERFLOW}

\* (address, value) pairs the program writes: PPUCTRL, PPUSCROLL, PPUADDR
\* and PPUDATA
RegWrites ==
    {<<8192, 132>>, <<8197, 255>>, <<8198, 63>>, <<8198, 16>>, <<8198, 255>>,
     <<8199, 66>>}

\* addresses the program reads: PPUSTATUS, its mirror at 0x3FFA, PPUDATA
RegReads == {8194, 16378, 8199}

InitReg ==
    /\ cpu = CpuNew
    /\ \E st \in RegInitStatus :
          bus = [BusNew("idle") EXCEPT
                    !.ppu = IF st = 0 THEN @
                            ELSE [@ EXCEPT !.status = st, !.scanline = VblankScanline,
                                           !.cycle = 2,
                                           !.mask = IF st = VBLANK THEN 0
                                                    ELSE MASK_SHOW_SPR]]
    /\ InitObs
    /\ inp = << >>

\* Bus::cpu_write to a PPU register
RegWrite(addr, val) ==
    /\ nops < MaxRegOps
    /\ bus' = BusCpuWrite(bus, addr, val)
    /\ op' = [kind |-> "write", addr |-> addr, val |-> val, v0 |-> bus.ppu.v]
    /\ nops' = nops + 1
    /\ UNCHANGED <<cpu, ret, latched, nreads, ppu_ticks, apu_ticks, sf_i, sf_log, inp, out>>

\* Bus::cpu_read of a PPU register
RegRead(addr) ==
    /\ nops < MaxRegOps
    /\ \E r \in {BusCpuRead(bus, addr)} :
          /\ bus' = r.bus
          /\ ret' = r.val
    /\ op' = [kind |-> "read", addr |-> addr, val |-> 0, v0 |-> bus.ppu.v]
    /\ nops' = nops + 1
    /\ UNCHANGED <<cpu, latched, nreads, ppu_ticks, apu_ticks, sf_i, sf_log, inp, out>>

NextReg ==
    \/ \E w \in RegWrites : RegWrite(w[1], w[2])
    \/ \E addr \in RegReads : RegRead(addr)

SpecReg == InitReg /\ [][NextReg]_vars

-----------------------------------------------------------------------------
(* A PPUADDR/PPUDATA round trip: the program points PPUADDR at H:L, writes *)
(* the bytes to PPUDATA, points PPUADDR at H:L again and reads PPUDATA.    *)

\* most bytes one round trip writes
MaxBytes == 3

\* the n bytes written from a seed: distinct, nonzero, some above 0x3F
RtBytes(seed, n) == [k \in 1..n |-> (seed + 97 * k) % 256]

\* PPUDATA reads of the run: one per byte, and the buffered one before them
\* when H:L is below the palette
RtReads == Len(inp.bytes) + (IF inp.h * 256 + inp.l < 16128 THEN 1 ELSE 0)

InitRT ==
    /\ cpu = CpuNew
    /\ InitObs
    /\ \E h \in {0, 32, 62, 63}, l \in {0, 14, 224, 255}, c \in {0, CTRL_VRAM_INCREMENT},
          n \in 1..MaxBytes, seed \in {96, 250} :
          /\ inp = [h |-> h, l |-> l, bytes |-> RtBytes(seed, n)]
          /\ bus = BusCpuWrite(BusNew("idle"), 8192, c)

\* the two PPUADDR writes, before the PPUDATA writes and again before the reads
RtAddr ==
    /\ nops \in {0, 1, Len(inp.bytes) + 2, Len(inp.bytes) + 3}
    /\ bus' = BusCpuWrite(bus, 8198, IF nops \in {0, Len(inp.bytes) + 2}
                                     THEN inp.h ELSE inp.l)
    /\ op' = [kind |-> "write", addr |-> 8198, val |-> 0, v0 |-> bus.ppu.v]
    /\ nops' = nops + 1
    /\ UNCHANGED <<cpu, ret, latched, nreads, ppu_ticks, apu_ticks, sf_i, sf_log, inp, out>>

\* the PPUDATA writes
RtWrite ==
    /\ nops \in 2..(Len(inp.bytes) + 1)
    /\ bus' = BusCpuWrite(bus, 8199, inp.bytes[nops - 1])
    /\ op' = [kind |-> "write", addr |-> 8199, val |-> inp.bytes[nops - 1],
              v0 |-> bus.ppu.v]
    /\ nops' = nops + 1
    /\ UNCHANGED <<cpu, ret, latched, nreads, ppu_ticks, apu_ticks, sf_i, sf_log, inp, out>>

\* the PPUDATA reads
RtRead ==
    /\ nops >= Len(inp.bytes) + 4
    /\ Len(out) < RtReads
    /\ \E r \in {BusCpuRead(bus, 8199)} :
          /\ bus' = r.bus
          /\ ret' = r.val
          /\ out' = Append(out, r.val)
    /\ op' = [kind |-> "read", addr |-> 8199, val |-> 0, v0 |-> bus.ppu.v]
    /\ nops' = nops + 1
    /\ UNCHANGED <<cpu, latched, nreads, ppu_ticks, apu_ticks, sf_i, sf_log, inp>>

NextRT == RtAddr \/ RtWrite \/ RtRead

SpecRT == InitRT /\ [][NextRT]_vars

-----------------------------------------------------------------------------
(* Loading a cartridge: an iNES file is parsed and, when that succeeds,    *)
(* the machine is built from it; the program then reads and writes the     *)
(* mapper and writes pattern memory through PPUDATA.                       *)

\* mapper and pattern-memory accesses the model follows after a load
MaxCartOps == 2

\* the length a file with this header needs
InesNeed(prg_pages, chr_pages, flags6) ==
    16 + (IF (flags6 \div 4) % 2 = 1 THEN 512 ELSE 0)
       + prg_pages * 16384 + chr_pages * 8192

InitCart ==
    /\ cpu = CpuNew
    /\ bus = [cycles |-> 0]
    /\ InitObs
    /\ \E magic \in {<<78, 69, 83, 26>>, <<78, 69, 83, 27>>},
          prg_pages \in 0..2, chr_pages \in 0..1,
          flags6 \in {0, 1, 4, 8, 13, 16}, flags7 \in {0, 1, 16},
          d \in {-1, 0, 1} :
          \E len \in {15, InesNeed(prg_pages, chr_pages, flags6) + d} :
             inp = [len |-> len, magic |-> magic, prg_pages |-> prg_pages,
                    chr_pages |-> chr_pages, flags6 |-> flags6, flags7 |-> flags7,
                    seed |-> 3]

\* Cartridge::from_ines, then Bus::new on the cartridge
Load ==
    /\ op.kind = "init"
    /\ \E r \in {from_ines(inp)} :
          /\ ret' = r
          /\ bus' = IF r.ok THEN BusOfCart(r.cart) ELSE bus
    /\ op' = [kind |-> "load", addr |-> 0, val |-> 0]
    /\ UNCHANGED <<cpu, latched, nreads, ppu_ticks, apu_ticks, sf_i, sf_log, nops, inp, out>>

CartLoaded == op.kind # "init" /\ ret.ok /\ nops < MaxCartOps

MapAddrs == {16416, 24575, 24576, 32767, 32768, 49151, 49152, 65535}

\* Mapper0::cpu_write
MapWrite(addr, val) ==
    /\ CartLoaded
    /\ bus' = [bus EXCEPT !.mapper = MapperCpuWrite(@, addr, val)]
    /\ op' = [kind |-> "map_write", addr |-> addr, val |-> val]
    /\ nops' = nops + 1
    /\ UNCHANGED <<cpu, ret, latched, nreads, ppu_ticks, apu_ticks, sf_i, sf_log, inp, out>>

\* Mapper0::chr_write
ChrWrite(addr, val) ==
    /\ CartLoaded
    /\ bus' = [bus EXCEPT !.mapper = chr_write(@, addr, val)]
    /\ op' = [kind |-> "chr_write", addr |-> addr, val |-> val]
    /\ nops' = nops + 1
    /\ UNCHANGED <<cpu, ret, latched, nreads, ppu_ticks, apu_ticks, sf_i, sf_log, inp, out>>

\* PPUADDR pointed at addr, then a PPUDATA write
DataWrite(addr, val) ==
    /\ CartLoaded
    /\ bus' = BusCpuWrite(BusCpuWrite(BusCpuWrite(bus, 8198, addr \div 256),
                                      8198, addr % 256), 8199, val)
    /\ op' = [kind |-> "data_write", addr |-> addr, val |-> val]
    /\ nops' = nops + 1
    /\ UNCHANGED <<cpu, ret, latched, nreads, ppu_ticks, apu_ticks, sf_i, sf_log, inp, out>>

NextCart ==
    \/ Load
    \/ \E addr \in MapAddrs, val \in {90, 0} : MapWrite(addr, val)
    \/ \E addr \in {0, 8191}, val \in {90} : ChrWrite(addr, val)
    \/ \E addr \in {0, 8191}, val \in {165} : DataWrite(addr, val)

SpecCart == InitCart /\ [][NextCart]_vars

-----------------------------------------------------------------------------
(* The CPU on any instruction stream: after reset the bytes fetched at pc  *)
(* are an input, drawn from the instructions that move the stack pointer,  *)
(* the stack and the status register; NMIs arrive between instructions.    *)

\* instructions and interrupt entries the model follows after reset
MaxCpuOps == 4

InitCpu ==
    /\ cpu = NesInit("idle").cpu
    /\ bus = NesInit("idle").bus
    /\ InitObs
    /\ inp = << >>

\* what the properties need of the CPU before the operation
CpuOp(kind, opcode) ==
    [kind |-> kind, opcode |-> opcode, sp0 |-> cpu.sp, a0 |-> cpu.a, st0 |-> cpu.status,
     pc0 |-> cpu.pc, ram0 |-> bus.ram]

\* Cpu::step with the opcode byte at pc being opcode
Instr(opcode) ==
    /\ nops < MaxCpuOps
    /\ \E r \in {step_fetched(cpu, [bus |-> BusCpuRead(bus, cpu.pc).bus, val |-> opcode])} :
          /\ cpu' = r.cpu
          /\ bus' = r.bus
    /\ op' = CpuOp("instr", opcode)
    /\ nops' = nops + 1
    /\ UNCHANGED <<ret, latched, nreads, ppu_ticks, apu_ticks, sf_i, sf_log, inp, out>>

\* the immediate load of Cpu::execute on the fetched operand m
exec_load_imm(opcode, r, m) ==
    IF opcode = 169 THEN exec_lda(r, m, OpCycles(opcode)) ELSE exec_ldx(r, m, OpCycles(opcode))

\* Cpu::step with LDA # / LDX # at pc and the operand byte being val
LoadImm(opcode, val) ==
    /\ nops < MaxCpuOps
    /\ \E r \in {resolve([cpu EXCEPT !.pc = (cpu.pc + 1) % 65536],
                         BusCpuRead(bus, cpu.pc).bus, "Immediate")} :
       \E e \in {step_done(cpu, exec_load_imm(opcode, r,
                              [bus |-> BusCpuRead(r.bus, r.addr).bus, val |-> val]))} :
          /\ cpu' = e.cpu
          /\ bus' = e.bus
    /\ op' = CpuOp("instr", opcode)
    /\ nops' = nops + 1
    /\ UNCHANGED <<ret, latched, nreads, ppu_ticks, apu_ticks, sf_i, sf_log, inp, out>>

\* Cpu::nmi
Nmi ==
    /\ nops < MaxCpuOps
    /\ \E r \in {CpuNmi(cpu, bus)} :
          /\ cpu' = r.cpu
          /\ bus' = r.bus
    /\ op' = CpuOp("nmi", -1)
    /\ nops' = nops + 1
    /\ UNCHANGED <<ret, latched, nreads, ppu_ticks, apu_ticks, sf_i, sf_log, inp, out>>

\* Cpu::irq
Irq ==
    /\ nops < MaxCpuOps
    /\ \E r \in {CpuIrq(cpu, bus)} :
          /\ cpu' = r.cpu
          /\ bus' = r.bus
    /\ op' = CpuOp("irq", -1)
    /\ nops' = nops + 1
    /\ UNCHANGED <<ret, latched, nreads, ppu_ticks, apu_ticks, sf_i, sf_log, inp, out>>

NextCpu ==
    \/ \E opcode \in {72, 8, 104, 40, 64, 154, 88, 56, 0} : Instr(opcode)
    \/ \E val \in {0, 223, 90} : LoadImm(169, val)
    \/ \E val \in {0, 255} : LoadImm(162, val)
    \/ Nmi
    \/ Irq

SpecCpu == InitCpu /\ [][NextCpu]_vars

-----------------------------------------------------------------------------
(* The APU on its own: ticked from power-on through two frames of the      *)
(* longer sequence, with register writes at power-on and mid-frame.  nops  *)
(* counts the ticks since power-on or the last write of $4017.             *)

\* Apu::tick calls the model follows
MaxApuTicks == 41100

InitApu ==
    /\ cpu = CpuNew
    /\ bus = BusNew("idle")
    /\ InitObs
    /\ inp = << >>

\* Apu::tick
TickApu ==
    /\ apu_ticks < MaxApuTicks
    /\ bus' = [bus EXCEPT !.apu = ApuTick(@)]
    /\ apu_ticks' = apu_ticks + 1
    /\ nops' = nops + 1
    /\ op' = [kind |-> "apu_tick", addr |-> 0, val |-> 0]
    /\ UNCHANGED <<cpu, ret, latched, nreads, ppu_ticks, sf_i, sf_log, inp, out>>

\* Bus::cpu_write of an APU register, at power-on or just after the first
\* quarter-frame clock, once between ticks
WriteApu(addr, val) ==
    /\ apu_ticks \in {0, 3730}
    /\ op.kind # "apu_write"
    /\ bus' = BusCpuWrite(bus, addr, val)
    /\ nops' = IF addr = 16407 THEN 0 ELSE nops
    /\ op' = [kind |-> "apu_write", addr |-> addr, val |-> val]
    /\ UNCHANGED <<cpu, ret, latched, nreads, ppu_ticks, apu_ticks, sf_i, sf_log, inp, out>>

NextApu ==
    \/ TickApu
    \/ \E val \in {0, 64, 128} : WriteApu(16407, val)
    \/ \E addr \in {16384, 16405} : WriteApu(addr, 255)

SpecApu == InitApu /\ [][NextApu]_vars

-----------------------------------------------------------------------------
(* The APU registers through the bus: the program enables channels, loads  *)
(* and halts length counters, clocks them by writing $4017 with bit 7 set  *)
(* (the 5-step mode's immediate clock) and reads $4015.                    *)

\* APU register writes the model follows
MaxApuOps == 5

InitApuReg ==
    /\ cpu = CpuNew
    /\ bus = BusNew("idle")
    /\ InitObs
    /\ inp = << >>

\* Bus::cpu_write of an APU register
ApuRegWrite(addr, val) ==
    /\ nops < MaxApuOps
    /\ bus' = BusCpuWrite(bus, addr, val)
    /\ op' = [kind |-> "apu_write", addr |-> addr, val |-> val]
    /\ nops' = nops + 1
    /\ UNCHANGED <<cpu, ret, latched, nreads, ppu_ticks, apu_ticks, sf_i, sf_log, inp, out>>

\* Bus::cpu_read of $4015, once between writes
ApuRegRead ==
    /\ op.kind # "apu_read"
    /\ \E r \in {BusCpuRead(bus, 16405)} :
          /\ bus' = r.bus
          /\ ret' = r.val
    /\ op' = [kind |-> "apu_read", addr |-> 16405, val |-> 0]
    /\ UNCHANGED <<cpu, latched, nreads, ppu_ticks, apu_ticks, sf_i, sf_log, nops, inp, out>>

NextApuReg ==
    \/ \E val \in {0, 5, 15} : ApuRegWrite(16405, val)
    \/ \E addr \in {16387, 16391, 16395, 16399} : ApuRegWrite(addr, 24)
    \/ ApuRegWrite(16387, 8)
    \/ \E addr \in {16384, 16396} : ApuRegWrite(addr, 32)
    \/ ApuRegWrite(16392, 128)
    \/ ApuRegWrite(16407, 128)
    \/ ApuRegRead

SpecApuReg == InitApuReg /\ [][NextApuReg]_vars

-----------------------------------------------------------------------------
(* Nametable memory: a cartridge with horizontal or vertical mirroring is  *)
(* loaded and the program writes nametable bytes through PPUADDR/PPUDATA.  *)

\* nametable writes the model follows
MaxNtOps == 3

\* a well-formed file with one PRG page, one CHR page and the given flags6
NromFile(flags6) ==
    [len |-> InesNeed(1, 1, flags6), magic |-> <<78, 69, 83, 26>>, prg_pages |-> 1,
     chr_pages |-> 1, flags6 |-> flags6, flags7 |-> 0, seed |-> 3]

InitNt ==
    /\ cpu = CpuNew
    /\ \E flags6 \in {0, 1} :
          /\ inp = NromFile(flags6)
          /\ bus = BusOfCart(from_ines(NromFile(flags6)).cart)
    /\ InitObs

\* PPUADDR pointed at addr, then a PPUDATA write
NtWrite(addr, val) ==
    /\ nops < MaxNtOps
    /\ bus' = BusCpuWrite(BusCpuWrite(BusCpuWrite(bus, 8198, addr \div 256),
                                      8198, addr % 256), 8199, val)
    /\ op' = [kind |-> "nt_write", addr |-> addr, val |-> val]
    /\ nops' = nops + 1
    /\ UNCHANGED <<cpu, ret, latched, nreads, ppu_ticks, apu_ticks, sf_i, sf_log, inp, out>>

NextNt ==
    \E addr \in {8192, 9215, 9216, 10240, 11264, 11269, 12287, 12288, 13312, 15365, 16127},
       val \in {17, 34} : NtWrite(addr, val)

SpecNt == InitNt /\ [][NextNt]_vars

-----------------------------------------------------------------------------
(* OAM DMA through the bus: RAM holds a sprite page, the program sets      *)
(* OAMADDR, writes single OAM bytes and starts transfers from RAM pages,   *)
(* a RAM mirror and a PRG ROM page.                                        *)

\* bus writes the model follows
MaxDmaOps == 3

\* byte i of the sprite pages the program left in RAM at 0x0200 and 0x0700
SpriteByte(seed, i) == (seed + 7 * i) % 256

InitDma ==
    /\ cpu = CpuNew
    /\ \E seed \in {1, 130} :
          bus = [BusNew("idle") EXCEPT
                    !.ram = [k \in {j \in (512..767) \cup (1792..2047) :
                                       SpriteByte(seed, j) # 0}
                             |-> SpriteByte(seed, k)]]
    /\ InitObs
    /\ inp = << >>

\* Bus::cpu_write of OAMADDR ($2003), OAMDATA ($2004) or OAM DMA ($4014)
DmaWrite(addr, val) ==
    /\ nops < MaxDmaOps
    /\ bus' = BusCpuWrite(bus, addr, val)
    /\ op' = [kind |-> "dma_write", addr |-> addr, val |-> val]
    /\ nops' = nops + 1
    /\ UNCHANGED <<cpu, ret, latched, nreads, ppu_ticks, apu_ticks, sf_i, sf_log, inp, out>>

NextDma ==
    \/ \E val \in {1, 128, 255} : DmaWrite(8195, val)
    \/ DmaWrite(8196, 77)
    \/ \E page \in {2, 15, 128, 191} : DmaWrite(16404, page)

SpecDma == InitDma /\ [][NextDma]_vars

-----------------------------------------------------------------------------
(* The audio path: the emulator thread runs Apu::tick, which pushes one    *)
(* averaged sample every CPU_FREQ / SAMPLE_RATE ticks; the host's audio    *)
(* thread runs NesAudio::callback, which pops one sample per output slot.  *)
(* The two share a crossbeam ArrayQueue, modelled by its contract: a       *)
(* bounded FIFO whose push and pop take effect atomically and return at    *)
(* once.  A sample is named by its production number 1, 2, ...; 0 stands   *)
(* for the 0.0 the callback writes when the queue is empty.                *)

CPU_FREQ == 1789773
SAMPLE_RATE == 44100

\* capacity of the queue of the model (BUFFER_CAPACITY of the source is 4096)
QueueCap == 2
\* Apu::tick calls and callback output slots the model follows
MaxAudioTicks == 165
MaxOut == 4

\* ArrayQueue::push: Err, queue untouched, when full
ArrayQueuePush(q, x) ==
    IF Len(q) >= QueueCap THEN [ok |-> FALSE, q |-> q]
    ELSE [ok |-> TRUE, q |-> Append(q, x)]

\* ArrayQueue::pop: None when empty
ArrayQueuePop(q) ==
    IF q = << >> THEN [some |-> FALSE, val |-> 0, q |-> q]
    ELSE [some |-> TRUE, val |-> Head(q), q |-> Tail(q)]

\* the downsampling step of Apu::tick with a push that evicts the oldest sample
tick_sample_evict(a, avg) ==
    IF a.cycle_fraction + SAMPLE_RATE >= CPU_FREQ
    THEN [cycle_fraction |-> a.cycle_fraction + SAMPLE_RATE - CPU_FREQ,
          sample_buffer |-> IF Len(a.sample_buffer) >= QueueCap
                            THEN Append(Tail(a.sample_buffer), avg)
                            ELSE Append(a.sample_buffer, avg),
          produced |-> TRUE]
    ELSE [a EXCEPT !.cycle_fraction = @ + SAMPLE_RATE, !.produced = FALSE]

\* the downsampling step of Apu::tick; cycle_fraction is kept in units of
\* 1 / SAMPLE_RATE of a CPU cycle, and the result of push is discarded
tick_sample(a, avg) ==
    IF a.cycle_fraction + SAMPLE_RATE >= CPU_FREQ
    THEN [cycle_fraction |-> a.cycle_fraction + SAMPLE_RATE - CPU_FREQ,
          sample_buffer |-> ArrayQueuePush(a.sample_buffer, avg).q,
          produced |-> TRUE]
    ELSE [a EXCEPT !.cycle_fraction = @ + SAMPLE_RATE, !.produced = FALSE]

\* one pass of the loop of NesAudio::callback: pop().unwrap_or(0.0)
callback_sample(q) ==
    [q |-> ArrayQueuePop(q).q,
     sample |-> IF ArrayQueuePop(q).some THEN ArrayQueuePop(q).val ELSE 0]

InitAudio ==
    /\ cpu = CpuNew
    /\ bus = [apu |-> [cycle_fraction |-> 0, sample_buffer |-> << >>,
                       produced |-> FALSE]]
    /\ InitObs
    /\ inp = << >>

\* the emulator thread: one Apu::tick
AudioTick ==
    /\ apu_ticks < MaxAudioTicks
    /\ \E a \in {tick_sample(bus.apu, nops + 1)} :
          /\ bus' = [bus EXCEPT !.apu = a]
          /\ nops' = IF a.produced THEN nops + 1 ELSE nops
    /\ apu_ticks' = apu_ticks + 1
    /\ op' = [kind |-> "tick"]
    /\ UNCHANGED <<cpu, ret, latched, nreads, ppu_ticks, sf_i, sf_log, inp, out>>

\* the audio thread: one output slot of NesAudio::callback
AudioCallback ==
    /\ Len(out) < MaxOut
    /\ \E r \in {callback_sample(bus.apu.sample_buffer)} :
          /\ bus' = [bus EXCEPT !.apu.sample_buffer = r.q]
          /\ out' = Append(out, r.sample)
    /\ op' = [kind |-> "callback"]
    /\ UNCHANGED <<cpu, ret, latched, nreads, ppu_ticks, apu_ticks, sf_i, sf_log, nops, inp>>

NextAudio == AudioTick \/ AudioCallback

SpecAudio == InitAudio /\ [][NextAudio]_vars

-----------------------------------------------------------------------------
(* Subroutines: the CPU after reset executing JSR, RTS, PHA, PLA, LDX # and *)
(* TXS in any order.  out is a shadow of the stack: one frame per JSR or    *)
(* PHA still on it, emptied when the program unbalances the stack.          *)

\* instructions the model follows after reset
MaxSubOps == 5

\* the shadow stack after the instruction
Shadow(opcode) ==
    CASE opcode = 32 -> Append(out, [call |-> TRUE, p |-> cpu.pc, sp |-> cpu.sp])
      [] opcode = 72 -> Append(out, [call |-> FALSE, p |-> cpu.pc, sp |-> cpu.sp])
      [] opcode = 104 -> IF out # << >> /\ ~out[Len(out)].call
                         THEN SubSeq(out, 1, Len(out) - 1) ELSE << >>
      [] opcode = 96 -> IF out # << >> /\ out[Len(out)].call
                        THEN SubSeq(out, 1, Len(out) - 1) ELSE << >>
      [] opcode = 154 -> << >>
      [] OTHER -> out

\* the step r as instruction opcode
SubDone(r, opcode, target) ==
    /\ nops < MaxSubOps
    /\ cpu' = r.cpu
    /\ bus' = r.bus
    /\ op' = [kind |-> "instr", opcode |-> opcode, target |-> target]
    /\ out' = Shadow(opcode)
    /\ nops' = nops + 1
    /\ UNCHANGED <<ret, latched, nreads, ppu_ticks, apu_ticks, sf_i, sf_log, inp>>

\* Cpu::step with the opcode byte at pc being opcode
SubInstr(opcode) ==
    \E r \in {step_fetched(cpu, [bus |-> BusCpuRead(bus, cpu.pc).bus, val |-> opcode])} :
       SubDone(r, opcode, -1)

\* Cpu::step with JSR at pc and the operand word being target
SubJsr(target) ==
    \E r \in {step_done(cpu, exec_jsr([cpu EXCEPT !.pc = (cpu.pc + 1) % 65536],
                                      [bus |-> BusRead16(BusCpuRead(bus, cpu.pc).bus,
                                                         (cpu.pc + 1) % 65536).bus,
                                       val |-> target],
                                      OpCycles(32)))} :
       SubDone(r, 32, target)

\* Cpu::step with LDX # at pc and the operand byte being val
SubLdx(val) ==
    \E r \in {resolve([cpu EXCEPT !.pc = (cpu.pc + 1) % 65536],
                      BusCpuRead(bus, cpu.pc).bus, "Immediate")} :
       SubDone(step_done(cpu, exec_load_imm(162, r,
                           [bus |-> BusCpuRead(r.bus, r.addr).bus, val |-> val])),
               162, -1)

NextSub ==
    \/ \E opcode \in {96, 72, 104, 154} : SubInstr(opcode)
    \/ \E target \in {32784, 49407} : SubJsr(target)
    \/ \E val \in {0, 1} : SubLdx(val)

SpecSub == InitCpu /\ [][NextSub]_vars

-----------------------------------------------------------------------------
(* PPUCTRL and the NMI line: the program writes PPUCTRL with and without   *)
(* the NMI-enable bit, reads PPUSTATUS, moves t, v, fine x and w through   *)
(* PPUSCROLL and PPUADDR, and the system takes a raised NMI.               *)

\* register accesses and NMI entries the model follows
MaxCtrlOps == 5

\* Nes::step, the NMI entry that clears nmi_pending
NmiTaken ==
    /\ nops < MaxCtrlOps
    /\ bus.ppu.nmi_pending
    /\ \E r \in {nmi_entry(cpu, bus)} :
          /\ cpu' = r.cpu
          /\ bus' = r.bus
    /\ op' = [kind |-> "nmi", addr |-> -1, val |-> 0, v0 |-> bus.ppu.v]
    /\ nops' = nops + 1
    /\ UNCHANGED <<ret, latched, nreads, ppu_ticks, apu_ticks, sf_i, sf_log, inp, out>>

NextCtrlNmi ==
    \/ \E val \in {0, 3, 128, 130} : nops < MaxCtrlOps /\ RegWrite(8192, val)
    \/ \E addr \in {8197, 8198} : nops < MaxCtrlOps /\ RegWrite(addr, 255)
    \/ nops < MaxCtrlOps /\ RegRead(8194)
    \/ NmiTaken

SpecCtrlNmi == InitReg /\ [][NextCtrlNmi]_vars

-----------------------------------------------------------------------------
(* Scrolling: the PPU at cycle 250 of a scanline, the program having set   *)
(* PPUMASK and the scroll registers, ticked through the end of the line    *)
(* and the start of the next.                                              *)

\* Ppu::tick calls the model follows
MaxScrollTicks == 100

ScrollLines == {0, 100, 239, 240, 260, 261}
ScrollMasks == {0, MASK_SHOW_BG, MASK_SHOW_SPR}
\* v: fine Y 7 at coarse Y 29, 31 (lower nametable row) and 5; fine Y 6
ScrollV == {28672 + 29 * 32 + 3, 28672 + 2048 + 31 * 32 + 1024, 28672 + 5 * 32 + 31,
            24576 + 29 * 32}
ScrollT == {0, 32767, 1055}

InitScroll ==
    /\ cpu = CpuNew
    /\ \E l \in ScrollLines, m \in ScrollMasks, v \in ScrollV, t \in ScrollT :
          bus = [BusNew("idle") EXCEPT
                    !.ppu = [@ EXCEPT !.mask = m, !.scanline = l, !.cycle = 250,
                                      !.v = v, !.t = t, !.fine_x = t % 8,
                                      !.w = (t = 1055)]]
    /\ InitObs
    /\ inp = << >>

NextScroll == \E hit \in BOOLEAN : ppu_ticks < MaxScrollTicks /\ Tick(hit)

SpecScroll == InitScroll /\ [][NextScroll]_vars

-----------------------------------------------------------------------------
(* The triangle's linear counter: the program writes $4008 and $400B and   *)
(* clocks a quarter frame by writing $4017 with bit 7 set.                 *)

\* APU register writes the model follows
MaxTriOps == 5

NextTri ==
    \/ \E val \in {5, 3, 128 + 9} : nops < MaxTriOps /\ ApuRegWrite(16392, val)
    \/ nops < MaxTriOps /\ ApuRegWrite(16395, 8)
    \/ nops < MaxTriOps /\ ApuRegWrite(16407, 128)

SpecTri == InitApuReg /\ [][NextTri]_vars

-----------------------------------------------------------------------------
(* Sprite 0 over the background: a PPU at the start of scanline 239 with   *)
(* sprite 0 (and possibly sprite 1) on that line, ticked through the       *)
(* pre-render line; the program reads PPUSTATUS just before the flags are  *)
(* cleared.  Tile 0 (the whole background) and tile 1 (the sprites) are    *)
(* one row of pattern bits each.                                           *)

\* Ppu::tick calls the model follows: scanline 239 through 261, cycle 1
MaxHitTicks == 7510

HitMasks == {MASK_SHOW_SPR, MASK_SHOW_BG, MASK_SHOW_BG + MASK_SHOW_SPR,
             MASK_SHOW_BG + MASK_SHOW_SPR + MASK_SHOW_BG_LEFT + MASK_SHOW_SPR_LEFT}
\* the background row: transparent, colour 1 on the left half of every
\* tile, colour 2 (the same colour as the universal background) likewise
HitBgPlanes == {<<0, 0>>, <<240, 0>>, <<0, 240>>}
HitSpriteX == {4, 255}

\* OAM entry i: on scanline 239, tile 1, palette 4, at x
HitSprite(oam, i, x) ==
    MemSet(MemSet(MemSet(oam, i * 4, 238), i * 4 + 1, 1), i * 4 + 3, x)

InitHit ==
    /\ cpu = CpuNew
    /\ \E m \in HitMasks, bg \in HitBgPlanes, x \in HitSpriteX, two \in BOOLEAN :
          bus = [BusNew("idle") EXCEPT
                    !.ppu = [@ EXCEPT
                       !.mask = m, !.scanline = 239, !.cycle = 0,
                       !.palette_ram = [i \in 0..31 |->
                            CASE i = 0 -> 15 [] i = 1 -> 33 [] i = 2 -> 15
                              [] i = 17 -> 22 [] OTHER -> 0],
                       !.chr_rom = VecSet(VecSet(VecSet(VecSet(@, 0, bg[1]), 8, bg[2]),
                                                 16, 255), 24, 0),
                       !.oam = IF two THEN HitSprite(HitSprite(MemNew, 0, x), 1, x)
                               ELSE HitSprite(MemNew, 0, x)]]
    /\ InitObs
    /\ inp = << >>

\* Ppu::tick, the scanline rendered from the PPU's memories
HitTick ==
    /\ ppu_ticks < MaxHitTicks
    /\ \E hit \in {bus.ppu.scanline < VisibleScanlines /\ bus.ppu.cycle = 0
                     /\ sprite_zero_hit(bus.ppu, bus.ppu.scanline)} : Tick(hit)

\* Bus::cpu_read of PPUSTATUS at the start of the pre-render line
HitRead ==
    /\ bus.ppu.scanline = LastScanline /\ bus.ppu.cycle = 0
    /\ nops = 0
    /\ RegRead(8194)

NextHit == HitTick \/ HitRead

SpecHit == InitHit /\ [][NextHit]_vars

-----------------------------------------------------------------------------
(* Nametable memory under every mirroring a file can select: the program   *)
(* writes and reads nametable bytes through PPUADDR/PPUDATA.  An index     *)
(* outside `vram: [u8; 2048]` panics and ends the run.                     *)

\* nametable accesses the model follows
MaxFourOps == 2

\* the length of Ppu::vram
VramSize == 2048

FourAddrs == {8192, 9215, 9216, 10240, 11264, 12287, 13312, 14336, 16127}

InitFour ==
    /\ cpu = CpuNew
    /\ \E flags6 \in {0, 1, 8, 9} :
          /\ inp = NromFile(flags6)
          /\ bus = BusOfCart(from_ines(NromFile(flags6)).cart)
    /\ InitObs

\* PPUADDR pointed at addr, then a PPUDATA write (write TRUE) or read
FourAccess(addr, val, write) ==
    /\ nops < MaxFourOps
    /\ op.kind # "panic"
    /\ \E index \in {mirror_vram_addr(bus.ppu, addr)} :
          IF index >= VramSize
          THEN /\ op' = [kind |-> "panic", addr |-> addr, val |-> val, index |-> index]
               /\ UNCHANGED <<bus, ret>>
          ELSE /\ op' = [kind |-> IF write THEN "nt_write" ELSE "nt_read",
                         addr |-> addr, val |-> val, index |-> index]
               /\ \E b \in {BusCpuWrite(BusCpuWrite(bus, 8198, addr \div 256),
                                        8198, addr % 256)} :
                     IF write
                     THEN bus' = BusCpuWrite(b, 8199, val) /\ ret' = ret
                     ELSE \E r \in {BusCpuRead(b, 8199)} : bus' = r.bus /\ ret' = r.val
    /\ nops' = nops + 1
    /\ UNCHANGED <<cpu, latched, nreads, ppu_ticks, apu_ticks, sf_i, sf_log, inp, out>>

NextFour ==
    \/ \E addr \in FourAddrs, val \in {17, 34} : FourAccess(addr, val, TRUE)
    \/ \E addr \in FourAddrs : FourAccess(addr, 0, FALSE)

SpecFour == InitFour /\ [][NextFour]_vars

-----------------------------------------------------------------------------
(* PRG ROM of every size a file can declare: a well-formed mapper 0 file   *)
(* is loaded and the CPU reads the PRG window, the vectors included.  An   *)
(* index outside prg_rom panics and ends the run.                          *)

\* PRG reads the model follows after the load
MaxPrgOps == 2

PrgPages == {0, 1, 2, 3, 255}
PrgAddrs == {32768, 49151, 49152, 65530, 65532, 65533, 65535}

InitPrg ==
    /\ cpu = CpuNew
    /\ bus = [cycles |-> 0]
    /\ InitObs
    /\ \E prg_pages \in PrgPages, chr_pages \in 0..1, flags6 \in {0, 4} :
          inp = [len |-> InesNeed(prg_pages, chr_pages, flags6),
                 magic |-> <<78, 69, 83, 26>>, prg_pages |-> prg_pages,
                 chr_pages |-> chr_pages, flags6 |-> flags6, flags7 |-> 0, seed |-> 3]

\* Bus::cpu_read of a PRG address (Cpu::reset and the interrupt entries read
\* the vectors this way)
PrgRead(addr) ==
    /\ op.kind \notin {"init", "panic"} /\ ret.ok /\ nops < MaxPrgOps
    /\ \E index \in {prg_index(bus.mapper, addr)} :
          op' = IF index >= bus.mapper.prg_rom.len
                THEN [kind |-> "panic", addr |-> addr, val |-> 0, index |-> index]
                ELSE [kind |-> "prg_read", addr |-> addr,
                      val |-> BusCpuRead(bus, addr).val, index |-> index]
    /\ nops' = nops + 1
    /\ UNCHANGED <<cpu, bus, ret, latched, nreads, ppu_ticks, apu_ticks, sf_i, sf_log, inp, out>>

NextPrg ==
    \/ Load
    \/ \E addr \in PrgAddrs : PrgRead(addr)

SpecPrg == InitPrg /\ [][NextPrg]_vars

-----------------------------------------------------------------------------
(* Both controller ports through the bus: buttons of either controller go  *)
(* down and up while the program writes and reads 0x4016 and 0x4017.       *)

\* bus accesses the model follows
MaxPadOps == 6

PadMasks == {0, BUTTON_A + BUTTON_SELECT + BUTTON_DOWN + BUTTON_RIGHT, 255}
PadPorts == {16406, 16407}

\* the `pub buttons` field of a controller set to a mask
PadKeys(pad, mask) ==
    /\ bus[pad].buttons # mask
    /\ bus' = [bus EXCEPT ![pad].buttons = mask]
    /\ op' = [kind |-> "key", addr |-> 0, val |-> mask]
    /\ UNCHANGED <<cpu, ret, latched, nreads, ppu_ticks, apu_ticks, sf_i, sf_log, nops, inp, out>>

\* Bus::cpu_write to a port; latched records the mask a 1->0 strobe of
\* controller 1 captures
PadWrite(addr, val) ==
    /\ nops < MaxPadOps
    /\ bus' = BusCpuWrite(bus, addr, val)
    /\ op' = [kind |-> "pad_write", addr |-> addr, val |-> val]
    /\ latched' = IF addr # 16406 THEN latched
                  ELSE IF val % 2 = 1 THEN -1
                  ELSE IF bus.controller1.strobe THEN bus.controller1.buttons
                  ELSE latched
    /\ nreads' = IF addr = 16406 /\ (val % 2 = 1 \/ bus.controller1.strobe) THEN 0 ELSE nreads
    /\ nops' = nops + 1
    /\ UNCHANGED <<cpu, ret, ppu_ticks, apu_ticks, sf_i, sf_log, inp, out>>

\* Bus::cpu_read of a port
PadRead(addr) ==
    /\ nops < MaxPadOps
    /\ \E r \in {BusCpuRead(bus, addr)} :
          /\ bus' = r.bus
          /\ ret' = r.val
    /\ op' = [kind |-> "pad_read", addr |-> addr, val |-> 0]
    /\ nreads' = IF addr = 16406 /\ latched # -1 THEN nreads + 1 ELSE nreads
    /\ nops' = nops + 1
    /\ UNCHANGED <<cpu, latched, ppu_ticks, apu_ticks, sf_i, sf_log, inp, out>>

NextPad ==
    \/ \E pad \in {"controller1", "controller2"}, mask \in PadMasks : PadKeys(pad, mask)
    \/ \E addr \in PadPorts, val \in {0, 1, 129} : PadWrite(addr, val)
    \/ \E addr \in PadPorts : PadRead(addr)

SpecPad == InitCtl /\ [][NextPad]_vars

-----------------------------------------------------------------------------
(* The noise channel on its own: its timer is clocked and the program      *)
(* writes $400E, selecting either feedback tap with the shortest period.   *)

\* Noise::tick_timer, as Apu::tick calls it
NoiseClock ==
    /\ bus' = [bus EXCEPT !.apu.noise = noise_tick_timer(@)]
    /\ op' = [kind |-> "noise_clock", addr |-> 0, val |-> 0]
    /\ UNCHANGED <<cpu, ret, latched, nreads, ppu_ticks, apu_ticks, sf_i, sf_log, nops, inp, out>>

\* Bus::cpu_write of $400E
NoiseWrite(val) ==
    /\ bus' = BusCpuWrite(bus, 16398, val)
    /\ op' = [kind |-> "apu_write", addr |-> 16398, val |-> val]
    /\ UNCHANGED <<cpu, ret, latched, nreads, ppu_ticks, apu_ticks, sf_i, sf_log, nops, inp, out>>

NextNoise ==
    \/ NoiseClock
    \/ \E val \in {0, 128} : NoiseWrite(val)

SpecNoise == InitApuReg /\ [][NextNoise]_vars

-----------------------------------------------------------------------------
(* The loopy registers under register accesses and ticks together: a PPU   *)
(* with the background shown, about to do a V update or in vertical blank, *)
(* while the program writes PPUCTRL, PPUSCROLL, PPUADDR and PPUDATA and    *)
(* reads PPUSTATUS and PPUDATA.                                            *)

\* register accesses and ticks the model follows
MaxVtOps == 6
MaxVtTicks == 2

VtPositions == {<<0, 256>>, <<261, 280>>, <<241, 256>>}
VtWrites == {<<8192, 7>>, <<8197, 255>>, <<8198, 255>>, <<8199, 0>>}

InitVt ==
    /\ cpu = CpuNew
    /\ \E pos \in VtPositions, m \in {MASK_SHOW_BG} :
          bus = [BusNew("idle") EXCEPT
                    !.ppu = [@ EXCEPT !.mask = m, !.scanline = pos[1], !.cycle = pos[2]]]
    /\ InitObs
    /\ inp = << >>

NextVt ==
    \/ \E w \in VtWrites : nops < MaxVtOps /\ RegWrite(w[1], w[2])
    \/ \E addr \in {8194, 8199} : nops < MaxVtOps /\ RegRead(addr)
    \/ \E hit \in {FALSE} : ppu_ticks < MaxVtTicks /\ Tick(hit)

SpecVt == InitVt /\ [][NextVt]_vars

-----------------------------------------------------------------------------
(* Properties                                                              *)

CyclesPerLine == LastCycle + 1
LinesPerFrame == LastScanline + 1
FrameTicks == CyclesPerLine * LinesPerFrame

\* C1: after n ticks from power-on the PPU is at cycle n mod 341 of scanline
\* (n div 341) mod 262, and the frame counter is n div (341 * 262).
C1_Lattice ==
    /\ bus.ppu.cycle = ppu_ticks % 341
    /\ bus.ppu.scanline = (ppu_ticks \div 341) % 262
    /\ bus.ppu.frame_count = ppu_ticks \div 89342
    /\ bus.ppu.cycle \in 0..340
    /\ bus.ppu.scanline \in 0..261

\* C1: the wrap from (261, 340) to (0, 0) has happened and counted a frame
C1_Witness ==
    /\ ppu_ticks = FrameTicks
    /\ bus.ppu.scanline = 0
    /\ bus.ppu.cycle = 0
    /\ bus.ppu.frame_count = 1

\* C2: a tick returns true exactly when executed at (241, 1), which is once
\* per 89342 ticks; that tick sets VBLANK and raises nmi_pending iff PPUCTRL's
\* NMI-enable bit is set; the tick at (261, 1) clears VBLANK, SPRITE_ZERO_HIT
\* and SPRITE_OVERFLOW; no other tick changes VBLANK or nmi_pending.
C2_TickStep ==
    LET p == bus.ppu
        q == bus'.ppu
        at_vbl == p.scanline = 241 /\ p.cycle = 1
        at_pre == p.scanline = 261 /\ p.cycle = 1
    IN  op'.kind = "tick" =>
          /\ op'.frame_complete <=> at_vbl
          /\ op'.frame_complete <=> ppu_ticks % 89342 = 241 * 341 + 1
          /\ at_vbl => /\ Contains(q.status, VBLANK)
                       /\ q.nmi_pending <=> (p.nmi_pending \/ Contains(p.ctrl, CTRL_NMI_ENABLE))
          /\ at_pre => StatusBits(q.status) = 0
          /\ ~at_vbl /\ ~at_pre =>
                /\ Contains(q.status, VBLANK) <=> Contains(p.status, VBLANK)
                /\ q.nmi_pending = p.nmi_pending

C2_VblankTiming == [][C2_TickStep]_vars

\* C2: the (241, 1) tick has raised the NMI and set VBLANK with sprite flags
\* set earlier in the frame, and the (261, 1) tick has cleared all three
C2_Witness ==
    /\ op.kind = "tick"
    /\ bus.ppu.scanline = 261
    /\ bus.ppu.cycle = 2
    /\ bus.ppu.nmi_pending
    /\ Contains(bus.ppu.mask, MASK_SHOW_SPR)
    /\ bus.ppu.status = 0

\* C3: after any sequence of Nes::step calls, the PPU ticks issued are 3 times
\* the CPU cycles consumed since reset (the cycle counter minus 7) and the APU
\* ticks equal them, NMI entries' 7 cycles included.
C3_TickRatio ==
    /\ ppu_ticks = 3 * (cpu.cycles - 7)
    /\ apu_ticks = cpu.cycles - 7

\* C4: after every Nes::step, nmi_pending is false; when it was set at the end
\* of the catch-up, the step made exactly one NMI entry on top of what
\* Cpu::step left (PC pushed high byte first, SP down by 3, 7 cycles, PC from
\* the vector at 0xFFFA), otherwise none; and the next step fetches its
\* opcode at the vector's address.
C4_AfterStep ==
    op.kind = "step" =>
      /\ ~bus.ppu.nmi_pending
      /\ op.pending =>
            /\ cpu.pc = NmiAddr
            /\ cpu.stall = 0
            /\ cpu.cycles = op.mid.cycles + 7
            /\ cpu.sp = (op.mid.sp + 253) % 256
            /\ MemGet(bus.ram, 256 + op.mid.sp) = op.mid.pc \div 256
            /\ MemGet(bus.ram, 256 + ((op.mid.sp + 255) % 256)) = op.mid.pc % 256
      /\ ~op.pending => cpu = op.mid

C4_NextFetch == (op.kind = "step" /\ op.pending) => op'.fetch = NmiAddr

C4_NmiBetweenInstructions == [](C4_AfterStep) /\ [][C4_NextFetch]_vars

\* C4: a PPUCTRL write during vblank raised nmi_pending (no frame-complete
\* tick in this step) and the step entered the NMI handler
C4_Witness ==
    /\ op.kind = "step"
    /\ op.pending
    /\ ~op.frame_complete
    /\ cpu.pc = NmiAddr
    /\ ~bus.ppu.nmi_pending

\* C5: a step_frame call makes at most 29781 steps (every step consuming at
\* least one CPU cycle), returns true right after the first step that reports
\* frame completion and never returns false; consecutive returns are one
\* frame of PPU ticks apart, up to the ticks of the two returning steps.
C5_StepFrame ==
    /\ sf_i <= 29780
    /\ op.kind = "step" =>
          /\ op.cpu_cycles >= 1
          /\ op.frame_complete <=> sf_i = 0
          /\ op.frame_complete =>
                /\ sf_log # << >>
                /\ sf_log[Len(sf_log)].ticks = ppu_ticks
    /\ \A k \in DOMAIN sf_log :
          /\ sf_log[k].ok
          /\ sf_log[k].steps <= 29781
          /\ k > 1 =>
                LET d == sf_log[k].ticks - sf_log[k - 1].ticks
                IN  /\ d > 89342 - sf_log[k - 1].last
                    /\ d < 89342 + sf_log[k].last

\* C5: two consecutive step_frame calls have returned true
C5_Witness ==
    /\ Len(sf_log) >= 2
    /\ sf_log[1].ok
    /\ sf_log[2].ok
    /\ sf_log[2].ticks - sf_log[1].ticks # 89342

\* C6: after write(1); write(0) latched the button mask b, the k-th read
\* since the latch returns bit k-1 of b for k = 1..8 and 0 for every later
\* k, whatever keys were pressed or released after the latch.
C6_LatchedReads ==
    (op.kind = "ctl_read" /\ latched # -1 /\ nreads >= 1) =>
        ret = IF nreads <= 8 THEN (latched \div (2 ^ (nreads - 1))) % 2 ELSE 0

\* the ninth read after latching A + SELECT + DOWN + RIGHT, all released since
C6_Witness ==
    /\ op.kind = "ctl_read"
    /\ latched = BUTTON_A + BUTTON_SELECT + BUTTON_DOWN + BUTTON_RIGHT
    /\ nreads = 9
    /\ ret = 0
    /\ bus.controller1.buttons = 0

\* C7: while the strobe is high a read returns bit 0 of the live button
\* mask and leaves the controller, its shift register included, unchanged.
C7_ReadStep ==
    (op'.kind = "ctl_read" /\ bus.controller1.strobe) =>
        /\ ret' = bus.controller1.buttons % 2
        /\ bus'.controller1.shift_register = bus.controller1.shift_register
        /\ bus'.controller1 = bus.controller1

C7_StrobeHighReads == [][C7_ReadStep]_vars

\* a strobe-mode read of a pressed A over a shift register still holding bits
C7_Witness ==
    /\ op.kind = "ctl_read"
    /\ op.strobe
    /\ bus.controller1.strobe
    /\ ret = 1
    /\ bus.controller1.shift_register >= 128

\* C8: a read of PPUSTATUS through any of its bus addresses returns the
\* status flags in bits 7..5 and the low five bits of the read buffer,
\* clears VBLANK and w, and keeps the sprite flags, v, t and nmi_pending.
C8_ReadStep ==
    (op'.kind = "read" /\ op'.addr \in 8192..16383 /\ op'.addr % 8 = 2) =>
        LET p == bus.ppu
            q == bus'.ppu
        IN  /\ ret' \div 32 = p.status \div 32
            /\ ret' % 32 = p.read_buffer % 32
            /\ q.status = p.status % 128
            /\ q.w = FALSE
            /\ q.v = p.v
            /\ q.t = p.t
            /\ q.nmi_pending = p.nmi_pending

C8_StatusRead == [][C8_ReadStep]_vars

\* a read through the mirror at 0x3FFA that returned all three flags over a
\* loaded read buffer, with an NMI pending
C8_Witness ==
    /\ op.kind = "read"
    /\ op.addr = 16378
    /\ ret = 255
    /\ bus.ppu.status = SPRITE_ZERO_HIT + SPRITE_OVERFLOW
    /\ bus.ppu.nmi_pending
    /\ ~bus.ppu.w

\* C9: after a PPUDATA read or write v is the old v plus the VRAM increment
\* (1 or 32) within 14 bits, hence at most 0x3FFF.
C9_DataAccess ==
    (op.kind \in {"read", "write"} /\ op.addr % 8 = 7) =>
        LET inc == IF (bus.ppu.ctrl \div 4) % 2 = 1 THEN 32 ELSE 1
        IN  /\ bus.ppu.v = (op.v0 + inc) % 16384
            /\ bus.ppu.v <= 16383

\* a PPUDATA write with increment 32 made while v was above 0x3FFF
C9_Witness ==
    /\ op.kind = "write"
    /\ op.addr % 8 = 7
    /\ op.v0 > 16383
    /\ (bus.ppu.ctrl \div 4) % 2 = 1
    /\ bus.ppu.v = (op.v0 + 32) % 16384

\* the other palette address of the pair of a, a itself when it has none
PalettePartner(a) ==
    IF (a % 32) % 4 # 0 THEN a
    ELSE IF a % 32 >= 16 THEN a - 16 ELSE a + 16

\* C10: palette addresses 0x3F10/14/18/1C and their 32-byte mirrors read
\* the byte of 0x3F00/04/08/0C; a PPUDATA write to either address of a
\* pair reads back through both, and a PPUDATA read returns that byte.
C10_PaletteMirror ==
    /\ \A k \in 0..7 : \A j \in {16, 20, 24, 28} :
          /\ palette_read(bus.ppu, 16128 + 32 * k + j)
                = palette_read(bus.ppu, 16128 + j - 16)
          /\ internal_read(bus.ppu, 16128 + 32 * k + j)
                = internal_read(bus.ppu, 16128 + j - 16)
    /\ (op.kind = "write" /\ op.addr % 8 = 7 /\ op.v0 \in 16128..16383) =>
          /\ palette_read(bus.ppu, op.v0) = op.val
          /\ palette_read(bus.ppu, PalettePartner(op.v0)) = op.val
    /\ (op.kind = "read" /\ op.addr % 8 = 7 /\ op.v0 \in 16128..16383) =>
          /\ ret = palette_read(bus.ppu, op.v0)
          /\ ret = palette_read(bus.ppu, PalettePartner(op.v0))

\* the byte written at 0x3F10 read back through PPUDATA at 0x3F10 again
C10_Witness ==
    /\ op.kind = "read"
    /\ op.addr % 8 = 7
    /\ op.v0 = 16144
    /\ ret = 66
    /\ palette_read(bus.ppu, 16128) = 66

\* the cell of PPU memory the 14-bit address a names: pattern byte, nametable
\* byte of the horizontally mirrored 2 KiB, or palette entry
RtCell(a) ==
    IF a < 8192 THEN <<"chr", a>>
    ELSE IF a < 16128 THEN <<"vram", (((a - 8192) % 4096) \div 2048) * 1024 + (a % 1024)>>
    ELSE <<"palette", IF a % 4 = 0 THEN a % 16 ELSE a % 32>>

\* the k-th address of the run, k = 1..
RtTarget(k) ==
    (inp.h * 256 + inp.l
        + (k - 1) * (IF (bus.ppu.ctrl \div 4) % 2 = 1 THEN 32 ELSE 1)) % 16384

RtDone == inp # << >> /\ Len(out) = RtReads

RtNoAlias ==
    \A j, k \in 1..Len(inp.bytes) : j # k => RtCell(RtTarget(j)) # RtCell(RtTarget(k))

\* the bytes read back, the buffered first read of a start below the palette
\* dropped
RtReadBack == IF inp.h * 256 + inp.l < 16128 THEN Tail(out) ELSE out

\* the addresses the reads are made at lie all below the palette or all
\* inside it
RtOneSide ==
    \A k \in 1..RtReads : (RtTarget(k) < 16128) = (RtTarget(1) < 16128)

\* C11, as stated: once the run is over the bytes read back, the first read
\* dropped when H:L is below 0x3F00, are the bytes written, provided no two
\* targets share a cell.
C11_RoundTripAsStated == (RtDone /\ RtNoAlias) => RtReadBack = inp.bytes

\* C11, amended: the same, provided also that the reads do not straddle
\* 0x3F00: every address read at, the one after the last byte included when
\* the first read is dropped, is on the side of 0x3F00 that H:L is on.
C11_RoundTrip == (RtDone /\ RtNoAlias /\ RtOneSide) => RtReadBack = inp.bytes

\* three bytes written with increment 32 from 0x20E0 and read back
C11_Witness ==
    /\ RtDone
    /\ inp.h = 32 /\ inp.l = 224
    /\ (bus.ppu.ctrl \div 4) % 2 = 1
    /\ Len(out) = 4
    /\ Tail(out) = <<193, 34, 131>>


-----------------------------------------------------------------------------
(* SpecCart: the mapper of a loaded cartridge                              *)

\* byte i of the file's PRG data: it starts after the header and the trainer
FilePrg(i) == RawByte(inp, InesNeed(0, 0, inp.flags6) + i)

\* the addresses looked at: all of them on the freshly built mapper, the
\* window edges after later accesses
CartWindow(lo, hi) ==
    IF op.kind = "load" THEN lo..hi ELSE {a \in MapAddrs : lo <= a /\ a <= hi}

\* C12: on a 16 KiB PRG image Mapper0::cpu_read(a) = cpu_read(a + 0x4000) =
\* prg[a - 0x8000] for every a in 0x8000..0xBFFF; on a 32 KiB image
\* cpu_read(a) = prg[a - 0x8000] over 0x8000..0xFFFF; reads in
\* 0x4020..0x5FFF return 0.
C12_PrgWindow ==
    (op.kind # "init" /\ ret.ok /\ inp.prg_pages >= 1) =>
        /\ inp.prg_pages = 1 =>
              \A a \in CartWindow(32768, 49151) :
                 /\ MapperCpuRead(bus.mapper, a) = FilePrg(a - 32768)
                 /\ MapperCpuRead(bus.mapper, a + 16384) = FilePrg(a - 32768)
        /\ inp.prg_pages = 2 =>
              \A a \in CartWindow(32768, 65535) :
                 MapperCpuRead(bus.mapper, a) = FilePrg(a - 32768)
        /\ \A a \in CartWindow(16416, 24575) : MapperCpuRead(bus.mapper, a) = 0

\* a 16 KiB cartridge with a trainer, after writes: the two windows read the
\* same non-zero byte
C12_Witness ==
    /\ op.kind = "map_write" /\ nops = MaxCartOps /\ ret.ok
    /\ inp.prg_pages = 1 /\ inp.flags6 = 13
    /\ MapperCpuRead(bus.mapper, 49151) = MapperCpuRead(bus.mapper, 65535)
    /\ MapperCpuRead(bus.mapper, 65535) = FilePrg(16383)
    /\ FilePrg(16383) # 0


\* C13: after any sequence of Mapper0::cpu_write calls the reads in
\* 0x8000..0xFFFF are unchanged; cpu_read(a) for a in 0x6000..0x7FFF returns
\* the last value written to a, 0 if a was never written; a write outside
\* 0x6000..0x7FFF changes no mapper state.
C13_PrgRam ==
    [][/\ (op'.kind = "load" /\ ret'.ok) =>
             \A a \in 24576..32767 : MapperCpuRead(bus'.mapper, a) = 0
       /\ op'.kind = "map_write" =>
             /\ inp.prg_pages >= 1 =>
                   \A a \in {32768, 49151, 49152, 65535} :
                      MapperCpuRead(bus'.mapper, a) = MapperCpuRead(bus.mapper, a)
             /\ \A a \in {24576, 24577, 28672, 32766, 32767} :
                   MapperCpuRead(bus'.mapper, a) =
                      IF a = op'.addr THEN op'.val ELSE MapperCpuRead(bus.mapper, a)
             /\ (op'.addr < 24576 \/ op'.addr > 32767) => bus'.mapper = bus.mapper
      ]_vars

\* both ends of PRG RAM hold a written byte, the second written after the first
C13_Witness ==
    /\ op.kind = "map_write" /\ op.addr = 32767 /\ op.val = 90 /\ nops = 2
    /\ MapperCpuRead(bus.mapper, 24576) = 90
    /\ MapperCpuRead(bus.mapper, 32767) = 90
    /\ MapperCpuRead(bus.mapper, 32766) = 0


\* byte a of the file's CHR data: it follows the PRG data
FileChr(a) == RawByte(inp, InesNeed(inp.prg_pages, 0, inp.flags6) + a)

\* C14: a write to CHR 0x0000..0x1FFF through Mapper0::chr_write or PPUDATA
\* is discarded when the cartridge supplies CHR ROM (chr_pages >= 1): the CHR
\* bytes stay those of the file; only CHR RAM (chr_pages = 0) reads back the
\* written byte.
C14_ChrRomReadOnly ==
    (op.kind # "init" /\ ret.ok) =>
        /\ inp.chr_pages >= 1 =>
              \A a \in {0, 8191} :
                 /\ chr_read(bus.mapper, a) = FileChr(a)
                 /\ internal_read(bus.ppu, a) = FileChr(a)
        /\ (inp.chr_pages = 0 /\ op.kind = "chr_write") =>
              chr_read(bus.mapper, op.addr) = op.val
        /\ (inp.chr_pages = 0 /\ op.kind = "data_write") =>
              internal_read(bus.ppu, op.addr) = op.val


\* the header fields of the file, as the claim words them
MagicOk == inp.magic = <<78, 69, 83, 26>>
HeaderMapper == (inp.flags7 \div 16) * 16 + inp.flags6 \div 16
LongEnough == inp.len >= InesNeed(inp.prg_pages, inp.chr_pages, inp.flags6)

\* C15: Cartridge::from_ines succeeds exactly when the magic is 'NES\x1A',
\* the mapper id (flags7 & 0xF0) | (flags6 >> 4) is 0 and the file is at least
\* 16 + (512 with a trainer) + prg_pages*16384 + chr_pages*8192 bytes long;
\* otherwise it returns InvalidHeader for the magic, UnsupportedMapper(id) for
\* the mapper and TruncatedFile for the length, and no cartridge.
C15_FromInes ==
    op.kind = "load" =>
        /\ ret.ok = (MagicOk /\ HeaderMapper = 0 /\ LongEnough)
        /\ ret.ok => DOMAIN ret = {"ok", "cart"}
        /\ ~ret.ok =>
              /\ DOMAIN ret = {"ok", "err", "id"}
              /\ bus = [cycles |-> 0]
              /\ ret.err \in {"InvalidHeader", "UnsupportedMapper", "TruncatedFile"}
              /\ ret.err = "InvalidHeader" => ~MagicOk
              /\ ret.err = "UnsupportedMapper" => (HeaderMapper # 0 /\ ret.id = HeaderMapper)
              /\ ret.err = "TruncatedFile" => ~LongEnough
              /\ (inp.len >= 16 /\ ~MagicOk) => ret.err = "InvalidHeader"
              /\ (inp.len >= 16 /\ MagicOk /\ HeaderMapper # 0) =>
                    ret.err = "UnsupportedMapper"

\* a file with the mapper id in flags7 alone is refused with that id
C15_Witness ==
    /\ op.kind = "load" /\ ~ret.ok
    /\ ret.err = "UnsupportedMapper" /\ ret.id = 16
    /\ inp.flags6 = 13 /\ LongEnough

\* a file one byte short of its trainer, PRG and CHR data is refused
C15_WitnessTruncated ==
    /\ op.kind = "load" /\ ~ret.ok /\ ret.err = "TruncatedFile"
    /\ MagicOk /\ HeaderMapper = 0 /\ inp.flags6 = 13
    /\ inp.len = InesNeed(inp.prg_pages, inp.chr_pages, inp.flags6) - 1


\* C16: for a well-formed mapper-0 file the parsed PRG is exactly the
\* prg_pages*16 KiB that follow the header and the (skipped) trainer, the CHR
\* is the chr_pages*8 KiB that follow PRG, or 8 KiB of zeros when
\* chr_pages = 0, and the mirroring is FourScreen if flags6 bit 3 is set,
\* else Vertical if bit 0 is set, else Horizontal.
C16_ParsedImage ==
    (op.kind = "load" /\ ret.ok) =>
        /\ ret.cart.prg_rom.len = inp.prg_pages * 16384
        /\ \A i \in 0..(inp.prg_pages * 16384 - 1) :
              VecGet(ret.cart.prg_rom, i) = FilePrg(i)
        /\ ret.cart.chr_rom.len = (IF inp.chr_pages = 0 THEN 1 ELSE inp.chr_pages) * 8192
        /\ \A a \in 0..(ret.cart.chr_rom.len - 1) :
              VecGet(ret.cart.chr_rom, a) = IF inp.chr_pages = 0 THEN 0 ELSE FileChr(a)
        /\ ret.cart.mirroring = (IF (inp.flags6 \div 8) % 2 = 1 THEN "FourScreen"
                                 ELSE IF inp.flags6 % 2 = 1 THEN "Vertical"
                                 ELSE "Horizontal")
        /\ ret.cart.mapper_id = 0

\* a file with a trainer, two PRG pages, CHR data and trailing bytes, with the
\* four-screen and vertical bits both set
C16_Witness ==
    /\ op.kind = "load" /\ ret.ok
    /\ inp.flags6 = 13 /\ inp.prg_pages = 2 /\ inp.chr_pages = 1
    /\ inp.len = InesNeed(2, 1, 13) + 1
    /\ ret.cart.mirroring = "FourScreen"
    /\ VecGet(ret.cart.prg_rom, 0) = RawByte(inp, 528)
    /\ VecGet(ret.cart.chr_rom, 8191) = RawByte(inp, 528 + 32768 + 8191)
    /\ RawByte(inp, 528) # RawByte(inp, 16)


-----------------------------------------------------------------------------
(* SpecCpu: the status register and the stack                              *)

\* C17: in every state reachable from reset by instructions and interrupt
\* entries bit 5 of the status register is set, also right after PLP or RTI
\* pulled a byte whose bit 5 is clear.
C17_Bit5 == Contains(cpu.status, FLAG_BREAK2)

\* the byte an instruction that pulls the flags took from the stack
PulledFlags == MemGet(op.ram0, 256 + ((op.sp0 + 1) % 256))

\* PLP has just pulled 0xDF, pushed by PHA: bit 5 clear, all others set
C17_Witness ==
    /\ op.kind = "instr" /\ op.opcode = 40
    /\ PulledFlags = 223
    /\ cpu.status = 239

\* RTI has just pulled a flags byte with bit 5 clear
C17_WitnessRti ==
    /\ op.kind = "instr" /\ op.opcode = 64
    /\ ~Contains(PulledFlags, FLAG_BREAK2)
    /\ PulledFlags # 0


\* RAM cells that differ between two RAM contents
RamDiff(r1, r2) == {k \in DOMAIN r1 \cup DOMAIN r2 : MemGet(r1, k) # MemGet(r2, k)}

\* the byte PHA (72) or PHP (8) pushes
PushedByte(opcode, a, status) == IF opcode = 72 THEN a ELSE BitOr(status, 48)

\* C18: a push writes the byte at 0x0100+SP and then decrements SP modulo
\* 256; a pull increments SP modulo 256 and then reads 0x0100+SP; every stack
\* access falls in 0x0100..0x01FF; a push immediately followed by a pull
\* returns the pushed byte and restores SP, also across the SP wrap from 0x00
\* to 0xFF.
C18_Stack ==
    [][/\ cpu.sp \in 0..255 /\ cpu'.sp \in 0..255
       /\ RamDiff(bus.ram, bus'.ram) \subseteq 256..511
       /\ (op'.kind = "instr" /\ op'.opcode \in {72, 8}) =>
             /\ cpu'.sp = (cpu.sp + 255) % 256
             /\ MemGet(bus'.ram, 256 + cpu.sp) = PushedByte(op'.opcode, cpu.a, cpu.status)
             /\ RamDiff(bus.ram, bus'.ram) \subseteq {256 + cpu.sp}
       /\ (op'.kind = "instr" /\ op'.opcode \in {104, 40}) =>
             /\ cpu'.sp = (cpu.sp + 1) % 256
             /\ bus'.ram = bus.ram
             /\ op'.opcode = 104 => cpu'.a = MemGet(bus.ram, 256 + cpu'.sp)
             /\ op'.opcode = 40 =>
                   BitAnd(cpu'.status, 207) = BitAnd(MemGet(bus.ram, 256 + cpu'.sp), 207)
       /\ (op.kind = "instr" /\ op.opcode \in {72, 8}
              /\ op'.kind = "instr" /\ op'.opcode \in {104, 40}) =>
             /\ cpu'.sp = op.sp0
             /\ MemGet(bus.ram, 256 + cpu'.sp) = PushedByte(op.opcode, op.a0, op.st0)
             /\ op'.opcode = 104 => cpu'.a = PushedByte(op.opcode, op.a0, op.st0)
      ]_vars

\* PLA has pulled, at 0x0100 with SP wrapping from 0xFF to 0x00, the byte
\* 0x36 that PHP pushed there with SP wrapping from 0x00 to 0xFF
C18_Witness ==
    /\ op.kind = "instr" /\ op.opcode = 104
    /\ op.sp0 = 255 /\ cpu.sp = 0
    /\ cpu.a = 54 /\ MemGet(bus.ram, 256) = 54


-----------------------------------------------------------------------------
(* SpecApu: the frame counter and the cycle parity                         *)

\* the length of the frame sequence in the current mode
FramePeriod == IF bus.apu.frame_counter_mode = 0 THEN 14915 ELSE 18641

\* the position in the sequence of the tick that makes n ticks since the
\* last reset: 1..FramePeriod
FrameTick(n) == ((n - 1) % FramePeriod) + 1

\* C19: counting ticks since power-on or the last $4017 write, a tick clocks
\* a quarter frame exactly when it is tick 3729, 7457, 11186 or the last of
\* the sequence (14915 in 4-step mode, 18641 in 5-step mode) and a half frame
\* exactly when it is tick 7457 or the last; the sequence then repeats; no
\* other tick clocks either.
C19_FrameSequence ==
    [][op'.kind = "apu_tick" =>
         /\ bus'.apu.clocks.quarter - bus.apu.clocks.quarter =
               (IF FrameTick(nops') \in {3729, 7457, 11186, FramePeriod} THEN 1 ELSE 0)
         /\ bus'.apu.clocks.half - bus.apu.clocks.half =
               (IF FrameTick(nops') \in {7457, FramePeriod} THEN 1 ELSE 0)
         /\ bus'.apu.frame_counter = FrameTick(nops') % FramePeriod
      ]_vars

\* the end of the second 5-step sequence after a $4017 write made mid-frame:
\* one quarter clock before the write, the write's own clocks, and four
\* quarter and two half clocks in each sequence
C19_Witness ==
    /\ op.kind = "apu_tick" /\ bus.apu.frame_counter_mode = 1
    /\ apu_ticks = 3730 + 2 * 18641 /\ nops = 2 * 18641
    /\ bus.apu.clocks.quarter = 10 /\ bus.apu.clocks.half = 5

\* the end of the second 4-step sequence after power-on
C19_Witness4 ==
    /\ op.kind = "apu_tick" /\ bus.apu.frame_counter_mode = 0
    /\ apu_ticks = 2 * 14915 /\ nops = 2 * 14915
    /\ bus.apu.clocks.quarter = 8 /\ bus.apu.clocks.half = 4

\* C20: every Apu::tick toggles the parity and clocks the triangle timer; the
\* pulse 1, pulse 2 and noise timers are clocked on the 1st, 3rd, 5th, ...
\* tick after power-on, so n times in 2n consecutive ticks; a register write
\* leaves the parity as it is.
C20_Parity ==
    [][/\ op'.kind = "apu_tick" =>
             /\ bus'.apu.odd_cycle = ~bus.apu.odd_cycle
             /\ bus'.apu.odd_cycle = (apu_ticks' % 2 = 1)
             /\ bus'.apu.clocks.triangle = bus.apu.clocks.triangle + 1
             /\ bus'.apu.clocks.triangle = apu_ticks'
             /\ \A ch \in {"pulse1", "pulse2", "noise"} :
                   /\ bus'.apu.clocks[ch] - bus.apu.clocks[ch] =
                         (IF apu_ticks' % 2 = 1 THEN 1 ELSE 0)
                   /\ bus'.apu.clocks[ch] = (apu_ticks' + 1) \div 2
       /\ op'.kind = "apu_write" =>
             /\ bus'.apu.odd_cycle = bus.apu.odd_cycle
             /\ \A ch \in {"triangle", "pulse1", "pulse2", "noise"} :
                   bus'.apu.clocks[ch] = bus.apu.clocks[ch]
      ]_vars

\* the tick after a $4017 write made on an even tick: the parity is odd and
\* the timers were clocked as if no write had happened
C20_Witness ==
    /\ op.kind = "apu_tick" /\ apu_ticks = 3731 /\ nops = 1
    /\ bus.apu.odd_cycle
    /\ bus.apu.clocks.triangle = 3731 /\ bus.apu.clocks.pulse1 = 1866
    /\ bus.apu.clocks.noise = 1866


-----------------------------------------------------------------------------
(* SpecApuReg: the status register of the APU                              *)

\* the channels in the order of their bits in $4015
ApuChannels == <<"pulse1", "pulse2", "triangle", "noise">>

\* C21: a $4015 read returns bits 0..3 set exactly for the channels (pulse 1,
\* pulse 2, triangle, noise) whose length counter is above 0, all other bits
\* 0, and changes no APU state; a $4015 write sets each channel's enable flag
\* from bits 0..3 and zeroes the length counter of every channel whose bit is
\* 0, so that a read right after it reports that channel silent.
C21_Status ==
    [][/\ op'.kind = "apu_read" =>
             /\ bus' = bus
             /\ ret' \in 0..15
             /\ \A i \in 1..4 :
                   Bit(ret', i - 1) = (IF bus.apu[ApuChannels[i]].length_counter > 0
                                       THEN 1 ELSE 0)
       /\ (op'.kind = "apu_write" /\ op'.addr = 16405) =>
             \A i \in 1..4 :
                /\ bus'.apu[ApuChannels[i]].enabled = (Bit(op'.val, i - 1) = 1)
                /\ bus'.apu[ApuChannels[i]].length_counter =
                      (IF Bit(op'.val, i - 1) = 1
                       THEN bus.apu[ApuChannels[i]].length_counter ELSE 0)
                /\ bus'.apu[ApuChannels[i]].length_halt =
                      bus.apu[ApuChannels[i]].length_halt
       /\ (op.kind = "apu_write" /\ op.addr = 16405 /\ op'.kind = "apu_read") =>
             \A i \in 1..4 : Bit(op.val, i - 1) = 0 => Bit(ret', i - 1) = 0
      ]_vars

\* pulse 1 and triangle enabled and loaded, then $4015 <- 0x01 silences the
\* triangle: the read returns 0x01 while the triangle is no longer enabled
C21_Witness ==
    /\ op.kind = "apu_read" /\ ret = 1
    /\ bus.apu.pulse1.length_counter = 2
    /\ bus.apu.triangle.length_counter = 0
    /\ bus.apu.pulse2.enabled /\ bus.apu.pulse2.length_counter = 0


-----------------------------------------------------------------------------
(* SpecNt: nametable mirroring                                             *)

\* the logical table 0..3 and the offset of a nametable address, with
\* 0x3000..0x3EFF lying over 0x2000..0x2EFF
NtTable(a) == ((a - 8192) % 4096) \div 1024
NtOffset(a) == (a - 8192) % 1024

\* the physical table of a logical one: {0,0,1,1} under Horizontal,
\* {0,1,0,1} under Vertical
NtPhysical(t) == IF inp.flags6 % 2 = 0 THEN t \div 2 ELSE t % 2

NtAlias(a, b) ==
    NtOffset(a) = NtOffset(b) /\ NtPhysical(NtTable(a)) = NtPhysical(NtTable(b))

\* the addresses looked at after a write at a: those with its offset in every
\* table and both address ranges, its neighbours and the table edges
NtProbe(a) ==
    {b \in {8192 + t * 1024 + NtOffset(a) : t \in 0..7} : b <= 16127}
    \cup {b \in {a - 1, a + 1} : b >= 8192 /\ b <= 16127}
    \cup {8192, 9215, 9216, 10240, 11264, 12287, 12288, 16127}

\* C22: a byte written at A in 0x2000..0x3EFF through the PPU's internal
\* write path is read back at every address of the same physical table and
\* offset -- logical tables {0,1,2,3} lie on physical {0,0,1,1} under
\* Horizontal mirroring (A and A xor 0x0400 alias) and on {0,1,0,1} under
\* Vertical mirroring (A and A xor 0x0800 alias), 0x3000..0x3EFF aliases
\* 0x2000..0x2EFF -- and at no address of another physical table.
C22_Mirroring ==
    [][op'.kind = "nt_write" =>
         \A b \in NtProbe(op'.addr) :
            internal_read(bus'.ppu, b) =
               (IF NtAlias(op'.addr, b) THEN op'.val ELSE internal_read(bus.ppu, b))
      ]_vars

\* under Vertical mirroring a byte written at 0x3400 (table 1 seen from the
\* upper range) reads back at 0x2C00 (table 3) and not at 0x2000 or 0x2800
C22_Witness ==
    /\ op.kind = "nt_write" /\ op.addr = 13312 /\ op.val = 34
    /\ bus.ppu.mirroring = "Vertical"
    /\ internal_read(bus.ppu, 11264) = 34
    /\ internal_read(bus.ppu, 9216) = 34
    /\ internal_read(bus.ppu, 8192) = 17
    /\ internal_read(bus.ppu, 10240) = 17

\* under Horizontal mirroring a byte written at 0x2400 reads back at 0x2000
\* and not at 0x2800 or 0x2C00
C22_WitnessHorizontal ==
    /\ op.kind = "nt_write" /\ op.addr = 9216 /\ op.val = 34
    /\ bus.ppu.mirroring = "Horizontal"
    /\ internal_read(bus.ppu, 8192) = 34
    /\ internal_read(bus.ppu, 12288) = 34
    /\ internal_read(bus.ppu, 11264) = 17


-----------------------------------------------------------------------------
(* SpecDma: the OAM transfer                                               *)

\* C23: writing page P to 0x4014 copies, for every i in 0..255, the byte the
\* CPU bus returns for P*256+i into OAM[(OAMADDR + i) mod 256]; OAMADDR is
\* unchanged, every OAM byte is overwritten and nothing else changes.
C23_OamDma ==
    [][(op'.kind = "dma_write" /\ op'.addr = 16404) =>
         /\ \A i \in 0..255 :
               MemGet(bus'.ppu.oam, (bus.ppu.oam_addr + i) % 256) =
                  BusCpuRead(bus, op'.val * 256 + i).val
         /\ bus'.ppu.oam_addr = bus.ppu.oam_addr
         /\ [bus' EXCEPT !.ppu.oam = bus.ppu.oam] = bus
      ]_vars

\* a transfer from the RAM mirror at 0x0F00 with OAMADDR = 255: byte 0 of the
\* page lands in OAM[255], byte 1 in OAM[0], over an OAM that held other bytes
C23_Witness ==
    /\ op.kind = "dma_write" /\ op.addr = 16404 /\ op.val = 15 /\ nops = 3
    /\ bus.ppu.oam_addr = 255
    /\ MemGet(bus.ppu.oam, 255) = MemGet(bus.ram, 1792)
    /\ MemGet(bus.ppu.oam, 0) = MemGet(bus.ram, 1793)
    /\ MemGet(bus.ppu.oam, 254) = MemGet(bus.ram, 2047)
    /\ MemGet(bus.ram, 1792) # MemGet(bus.ram, 1793)


-----------------------------------------------------------------------------
(* SpecAudio: the sample queue between the emulator and the audio callback *)

\* the samples the callback delivered that came out of the queue
Delivered(o) == SelectSeq(o, LAMBDA x : x # 0)

\* C24: under every interleaving of Apu::tick and the audio callback neither
\* side blocks, a push onto a full queue drops the sample and leaves the queue
\* unchanged, a pop from an empty queue yields 0.0, the occupancy never exceeds
\* the capacity, and the delivered samples that were not substituted are a
\* subsequence of the produced ones in production order, none delivered twice.
C24_SampleQueue ==
    /\ [](/\ Len(bus.apu.sample_buffer) <= QueueCap
          /\ apu_ticks < MaxAudioTicks => ENABLED AudioTick
          /\ Len(out) < MaxOut => ENABLED AudioCallback
          /\ \A i \in 1..Len(Delivered(out)) :
                /\ Delivered(out)[i] \in 1..nops
                /\ i > 1 => Delivered(out)[i - 1] < Delivered(out)[i])
    /\ [][/\ (op'.kind = "tick" /\ nops' # nops
                 /\ Len(bus.apu.sample_buffer) = QueueCap)
             => bus'.apu.sample_buffer = bus.apu.sample_buffer
          /\ (op'.kind = "tick" /\ nops' # nops
                 /\ Len(bus.apu.sample_buffer) < QueueCap)
             => bus'.apu.sample_buffer = Append(bus.apu.sample_buffer, nops')
          /\ (op'.kind = "callback" /\ bus.apu.sample_buffer = << >>)
             => /\ out'[Len(out')] = 0
                /\ bus'.apu.sample_buffer = << >>
          /\ (op'.kind = "callback" /\ bus.apu.sample_buffer # << >>)
             => /\ out'[Len(out')] = Head(bus.apu.sample_buffer)
                /\ bus'.apu.sample_buffer = Tail(bus.apu.sample_buffer)
       ]_vars

\* the third sample met a full queue and was dropped, the callback later ran
\* dry once, and the fourth sample was delivered after the first two
C24_Witness ==
    /\ nops = 4
    /\ out = <<1, 2, 0, 4>>
    /\ bus.apu.sample_buffer = << >>


-----------------------------------------------------------------------------
(* SpecReg: the PPUDATA read buffer                                        *)

-----------------------------------------------------------------------------
(* Spec: the CPU stall of an OAM transfer                                  *)

\* the instruction at addr is STA $4014
IsStaDma(b, addr) ==
    /\ addr >= 32768
    /\ BusCpuRead(b, addr).val = 141
    /\ BusCpuRead(b, addr + 1).val = 20
    /\ BusCpuRead(b, addr + 2).val = 64

\* C26: a write to 0x4014 raises the CPU's stall counter by 513 (514 on an odd
\* CPU cycle), and each Cpu::step that finds the counter above zero consumes
\* one cycle, decrements the counter and executes nothing.
C26_DmaStall ==
    [][op'.kind = "step" =>
         /\ IsStaDma(bus, op'.fetch) =>
               op'.mid.stall \in {cpu.stall + 513, cpu.stall + 514}
         /\ cpu.stall > 0 =>
               /\ op'.cpu_cycles = 1
               /\ op'.fetch = -1
               /\ op'.mid = [cpu EXCEPT !.stall = @ - 1, !.cycles = @ + 1]
      ]_vars


-----------------------------------------------------------------------------
(* SpecCpu: interrupt entry                                                *)

\* the interrupt entry through the vector at vec, from cpu/bus to cpu'/bus'
InterruptEntry(vec) ==
    /\ MemGet(bus'.ram, 256 + cpu.sp) = cpu.pc \div 256
    /\ MemGet(bus'.ram, 256 + ((cpu.sp + 255) % 256)) = cpu.pc % 256
    /\ MemGet(bus'.ram, 256 + ((cpu.sp + 254) % 256)) =
          BitClear(BitOr(cpu.status, 32), 16)
    /\ cpu'.sp = (cpu.sp + 253) % 256
    /\ cpu'.status = BitOr(cpu.status, FLAG_IRQ_DIS)
    /\ cpu'.a = cpu.a /\ cpu'.x = cpu.x /\ cpu'.y = cpu.y
    /\ cpu'.pc = BusCpuRead(bus, vec).val + 256 * BusCpuRead(bus, vec + 1).val
    /\ cpu'.cycles = cpu.cycles + 7

\* C27: NMI entry pushes PC high, PC low and the status with bit 5 set and bit
\* 4 clear (SP drops by 3 mod 256), sets IRQ_DISABLE leaving the other flags
\* and A, X, Y alone, loads PC from 0xFFFA/B and adds 7 cycles; IRQ entry does
\* the same through 0xFFFE/F when IRQ_DISABLE is clear and changes no
\* register, memory or cycle count when it is set.
C27_InterruptEntry ==
    [][/\ op'.kind = "nmi" => InterruptEntry(65530)
       /\ (op'.kind = "irq" /\ ~Contains(cpu.status, FLAG_IRQ_DIS))
             => InterruptEntry(65534)
       /\ (op'.kind = "irq" /\ Contains(cpu.status, FLAG_IRQ_DIS))
             => cpu' = cpu /\ bus' = bus
      ]_vars

\* an IRQ taken after CLI with SP = 0: the pushes wrap to 0x01FF and 0x01FE
C27_Witness ==
    /\ op.kind = "irq"
    /\ ~Contains(op.st0, FLAG_IRQ_DIS)
    /\ op.sp0 = 0
    /\ cpu.sp = 253
    /\ cpu.pc = IrqAddr
    /\ Contains(cpu.status, FLAG_IRQ_DIS)

\* an IRQ that found IRQ_DISABLE set, and an NMI that did not care
C27_WitnessMasked ==
    /\ op.kind = "irq" /\ Contains(op.st0, FLAG_IRQ_DIS) /\ cpu.sp = op.sp0

C27_WitnessNmi ==
    /\ op.kind = "nmi" /\ Contains(op.st0, FLAG_IRQ_DIS) /\ cpu.pc = NmiAddr


-----------------------------------------------------------------------------
(* SpecCpu: the B flag                                                     *)

\* the step is the instruction with this opcode
Executes(opcode) == op'.kind = "instr" /\ op'.opcode = opcode

\* the status PLP and RTI build from the byte on top of the stack
MergedFlags == BitOr(BitOr(BitAnd(MemGet(bus.ram, 256 + ((cpu.sp + 1) % 256)), 207),
                           BitAnd(cpu.status, 48)), 32)

\* C28: PHP and BRK push the status with bits 4 and 5 set and leave bits 4 and
\* 5 of the register alone; PLP and RTI set the register to (pulled & 0xCF) |
\* (previous & 0x30) with bit 5 forced; PHP then PLP leaves the status
\* unchanged; an NMI entry followed by RTI restores PC, SP and status exactly;
\* bit 4 of the register is set in no state reachable from reset.
C28_BreakFlag ==
    /\ [](~Contains(cpu.status, FLAG_BREAK))
    /\ [][/\ Executes(8) =>
                /\ MemGet(bus'.ram, 256 + cpu.sp) = BitOr(cpu.status, 48)
                /\ BitAnd(cpu'.status, 48) = BitAnd(cpu.status, 48)
          /\ Executes(0) =>
                /\ MemGet(bus'.ram, 256 + ((cpu.sp + 254) % 256)) = BitOr(cpu.status, 48)
                /\ BitAnd(cpu'.status, 48) = BitAnd(cpu.status, 48)
          /\ (Executes(40) \/ Executes(64)) => cpu'.status = MergedFlags
          /\ (op.kind = "instr" /\ op.opcode = 8 /\ Executes(40)) =>
                cpu'.status = op.st0
          /\ (op.kind = "nmi" /\ Executes(64)) =>
                /\ cpu'.pc = op.pc0
                /\ cpu'.sp = op.sp0
                /\ cpu'.status = op.st0
       ]_vars

\* RTI has just returned from an NMI that interrupted a program with
\* IRQ_DISABLE clear and carry set: the entry set IRQ_DISABLE, RTI cleared it
C28_Witness ==
    /\ op.kind = "instr" /\ op.opcode = 64
    /\ nops = 4
    /\ cpu.status = 33
    /\ cpu.pc = ResetAddr + 2
    /\ cpu.sp = 253
    /\ MemGet(bus.ram, 256 + 251) = 33

\* PLP has just pulled what PHP pushed (bit 4 set on the stack, not in the
\* register)
C28_WitnessPhpPlp ==
    /\ op.kind = "instr" /\ op.opcode = 40
    /\ Contains(PulledFlags, FLAG_BREAK)
    /\ cpu.status = op.st0
    /\ PulledFlags = BitOr(cpu.status, 48)


-----------------------------------------------------------------------------
(* SpecSub: subroutine call and return                                     *)

\* the word on top of the stack, low byte first
TopWord == MemGet(bus.ram, 256 + ((cpu.sp + 1) % 256))
           + 256 * MemGet(bus.ram, 256 + ((cpu.sp + 2) % 256))

\* C29: JSR at p pushes p + 2, high byte first, and jumps to its operand; RTS
\* pulls 16 bits and sets PC to that plus 1; a JSR and the RTS that finds the
\* stack balanced resume at p + 3 with SP as before the JSR, also when SP
\* wraps in between.
C29_JsrRts ==
    [][/\ Executes(32) =>
             /\ MemGet(bus'.ram, 256 + cpu.sp) = ((cpu.pc + 2) % 65536) \div 256
             /\ MemGet(bus'.ram, 256 + ((cpu.sp + 255) % 256)) = (cpu.pc + 2) % 256
             /\ cpu'.sp = (cpu.sp + 254) % 256
             /\ cpu'.pc = op'.target
       /\ Executes(96) =>
             /\ cpu'.pc = (TopWord + 1) % 65536
             /\ cpu'.sp = (cpu.sp + 2) % 256
       /\ (Executes(96) /\ out # << >> /\ out[Len(out)].call) =>
             /\ cpu'.pc = out[Len(out)].p + 3
             /\ cpu'.sp = out[Len(out)].sp
      ]_vars

\* LDX #1; TXS; JSR; RTS: the return address went to 0x0101 and 0x0100, SP
\* wrapped to 0xFF, and RTS came back behind the JSR with SP = 1
C29_Witness ==
    /\ op.kind = "instr" /\ op.opcode = 96
    /\ nops = 4
    /\ cpu.sp = 1
    /\ cpu.pc = ResetAddr + 6
    /\ MemGet(bus.ram, 257) = 128
    /\ MemGet(bus.ram, 256) = 5

\* JSR; PHA; PLA; RTS: a return over a stack that was used and rebalanced
C29_WitnessBalanced ==
    /\ op.kind = "instr" /\ op.opcode = 96
    /\ nops = 4
    /\ cpu.sp = 253
    /\ cpu.pc = ResetAddr + 3


-----------------------------------------------------------------------------
(* SpecCtrlNmi: PPUCTRL writes                                             *)

\* the write turns NMI-enable from 0 to 1 with VBLANK set
NmiEdge ==
    /\ ~Contains(bus.ppu.ctrl, CTRL_NMI_ENABLE)
    /\ Contains(op'.val, CTRL_NMI_ENABLE)
    /\ Contains(bus.ppu.status, VBLANK)

\* C30: a write to PPUCTRL raises nmi_pending if and only if NMI-enable goes
\* from 0 to 1 while VBLANK is set; a write that keeps the bit at 1, clears it
\* or sets it while VBLANK is clear does not; every PPUCTRL write copies bits
\* 0..1 of the value into bits 10..11 of t and leaves the other bits of t, v,
\* fine x and w unchanged.
C30_CtrlWrite ==
    [][(op'.kind = "write" /\ op'.addr = 8192) =>
         /\ NmiEdge => bus'.ppu.nmi_pending
         /\ ~NmiEdge => bus'.ppu.nmi_pending = bus.ppu.nmi_pending
         /\ (bus'.ppu.t \div 1024) % 4 = op'.val % 4
         /\ bus'.ppu.t % 1024 = bus.ppu.t % 1024
         /\ bus'.ppu.t \div 4096 = bus.ppu.t \div 4096
         /\ bus'.ppu.v = bus.ppu.v
         /\ bus'.ppu.fine_x = bus.ppu.fine_x
         /\ bus'.ppu.w = bus.ppu.w
      ]_vars

\* the NMI was raised by a write, taken, and a second write with the enable
\* bit still set (and other nametable bits) did not raise it again; t holds
\* the scroll bits next to the new nametable bits
C30_Witness ==
    /\ op.kind = "write" /\ op.addr = 8192 /\ op.val = 130
    /\ nops = 4
    /\ Contains(bus.ppu.status, VBLANK)
    /\ ~bus.ppu.nmi_pending
    /\ cpu.pc = NmiAddr
    /\ bus.ppu.t = 2048 + 31
    /\ bus.ppu.w

\* NMI-enable set after a PPUSTATUS read cleared VBLANK: nothing raised
C30_WitnessAfterRead ==
    /\ op.kind = "write" /\ op.addr = 8192 /\ op.val = 128
    /\ nops = 2
    /\ ~Contains(bus.ppu.status, VBLANK)
    /\ Contains(bus.ppu.status, SPRITE_ZERO_HIT)
    /\ ~bus.ppu.nmi_pending


-----------------------------------------------------------------------------
(* SpecScroll: what a tick does to v                                       *)

\* v put together from fine Y, the nametable bits, coarse Y and coarse X
Loopy(fy, nty, ntx, cy, cx) == fy * 4096 + nty * 2048 + ntx * 1024 + cy * 32 + cx

FineY(v) == (v \div 4096) % 8
NtY(v) == (v \div 2048) % 2
NtX(v) == (v \div 1024) % 2
CoarseY(v) == (v \div 32) % 32
CoarseX(v) == v % 32

\* v after the fine-Y increment of cycle 256
NextRow(v) ==
    IF FineY(v) < 7 THEN Loopy(FineY(v) + 1, NtY(v), NtX(v), CoarseY(v), CoarseX(v))
    ELSE IF CoarseY(v) = 29 THEN Loopy(0, 1 - NtY(v), NtX(v), 0, CoarseX(v))
    ELSE IF CoarseY(v) = 31 THEN Loopy(0, NtY(v), NtX(v), 0, CoarseX(v))
    ELSE Loopy(0, NtY(v), NtX(v), CoarseY(v) + 1, CoarseX(v))

\* the tick from bus.ppu updates v
ScrollActive ==
    /\ rendering_enabled(bus.ppu)
    /\ bus.ppu.scanline \in (0..239) \cup {261}

\* C31: Ppu::tick changes v only while rendering is enabled and the scanline
\* is visible or pre-render: at cycle 256 (fine-Y increment, coarse Y 29
\* wrapping to 0 with the vertical nametable bit toggled, 31 wrapping to 0
\* without), at cycle 257 (bits 0x041F from t) and, on the pre-render line,
\* at cycles 280..304 (bits 0x7BE0 from t); on every other tick v is
\* unchanged; no tick changes t, fine x or w.
C31_TickV ==
    [][op'.kind = "tick" =>
         /\ bus'.ppu.t = bus.ppu.t
         /\ bus'.ppu.fine_x = bus.ppu.fine_x
         /\ bus'.ppu.w = bus.ppu.w
         /\ bus'.ppu.v =
               IF ~ScrollActive THEN bus.ppu.v
               ELSE IF bus.ppu.cycle = 256 THEN NextRow(bus.ppu.v)
               ELSE IF bus.ppu.cycle = 257
               THEN Loopy(FineY(bus.ppu.v), NtY(bus.ppu.v), NtX(bus.ppu.t),
                          CoarseY(bus.ppu.v), CoarseX(bus.ppu.t))
               ELSE IF bus.ppu.scanline = 261 /\ bus.ppu.cycle \in 280..304
               THEN Loopy(FineY(bus.ppu.t), NtY(bus.ppu.t), NtX(bus.ppu.v),
                          CoarseY(bus.ppu.t), CoarseX(bus.ppu.v))
               ELSE bus.ppu.v
      ]_vars

\* the tick at cycle 256 of visible line 239 has just wrapped coarse Y from 29
\* to 0 and toggled the vertical nametable bit
C31_Witness ==
    /\ op.kind = "tick"
    /\ bus.ppu.scanline = 239 /\ bus.ppu.cycle = 257
    /\ bus.ppu.mask = MASK_SHOW_BG
    /\ bus.ppu.v = 2048 + 3
    /\ bus.ppu.t = 32767

\* the pre-render line has copied the vertical bits of t and kept the
\* horizontal bits copied at cycle 257
C31_WitnessPreRender ==
    /\ op.kind = "tick"
    /\ bus.ppu.scanline = 261 /\ bus.ppu.cycle = 281
    /\ bus.ppu.t = 1055
    /\ bus.ppu.v = 1055

\* a line in vblank with rendering enabled went past cycle 257 with v as it was
C31_WitnessVblank ==
    /\ op.kind = "tick"
    /\ bus.ppu.scanline = 240 /\ bus.ppu.cycle = 300
    /\ bus.ppu.mask = MASK_SHOW_SPR
    /\ bus.ppu.v = 28672 + 29 * 32 + 3
    /\ bus.ppu.t = 0


-----------------------------------------------------------------------------
(* SpecTri: the linear counter's reload flag                               *)

\* the step writes val to the APU register at addr
ApuWrites(addr) == op'.kind = "apu_write" /\ op'.addr = addr

\* the quarter-frame clock on the triangle, from bus to bus'
LinearClocked ==
    /\ bus'.apu.triangle.linear_counter =
          IF bus.apu.triangle.linear_reload THEN bus.apu.triangle.linear_period
          ELSE IF bus.apu.triangle.linear_counter > 0
          THEN bus.apu.triangle.linear_counter - 1 ELSE 0
    /\ bus'.apu.triangle.linear_reload =
          (bus.apu.triangle.linear_reload /\ bus.apu.triangle.length_halt)

\* C32 as stated: a write to $4008 sets the triangle's linear-counter reload
\* flag, so that the next quarter-frame clock reloads the counter with the
\* period just written; that clock clears the flag unless bit 7 was set.
C32_ReloadAsStated ==
    [][/\ ApuWrites(16392) => bus'.apu.triangle.linear_reload
       /\ (op.kind = "apu_write" /\ op.addr = 16392 /\ ApuWrites(16407)) =>
             /\ bus'.apu.triangle.linear_counter = op.val % 128
             /\ bus'.apu.triangle.linear_reload = (op.val >= 128)
      ]_vars

\* C32: a write to $4008 stores the 7-bit period and the control/halt bit and
\* leaves the reload flag and the counter as they were; a write to $400B sets
\* the reload flag; a quarter-frame clock reloads the counter with the period
\* when the flag is set and otherwise decrements it (not below 0), and clears
\* the flag unless the control/halt bit is set.
C32_LinearReload ==
    [][/\ ApuWrites(16392) =>
             /\ bus'.apu.triangle.linear_period = op'.val % 128
             /\ bus'.apu.triangle.length_halt = (op'.val >= 128)
             /\ bus'.apu.triangle.linear_reload = bus.apu.triangle.linear_reload
             /\ bus'.apu.triangle.linear_counter = bus.apu.triangle.linear_counter
       /\ ApuWrites(16395) =>
             /\ bus'.apu.triangle.linear_reload
             /\ bus'.apu.triangle.linear_counter = bus.apu.triangle.linear_counter
       /\ ApuWrites(16407) => LinearClocked
      ]_vars

\* $4008 <- 5, $400B, clock (counter 5, flag cleared), $4008 <- 3, clock: the
\* counter went down to 4 and was not reloaded with 3
C32_Witness ==
    /\ op.kind = "apu_write" /\ op.addr = 16407
    /\ nops = 5
    /\ bus.apu.triangle.linear_period = 3
    /\ bus.apu.triangle.linear_counter = 4
    /\ ~bus.apu.triangle.linear_reload

\* with the control bit set the flag survives the clock
C32_WitnessHalt ==
    /\ op.kind = "apu_write" /\ op.addr = 16407
    /\ bus.apu.triangle.length_halt
    /\ bus.apu.triangle.linear_reload
    /\ bus.apu.triangle.linear_counter = 9


-----------------------------------------------------------------------------
(* SpecApu: the $4017 write                                                *)

\* C33: a write to $4017 sets the mode from bit 7 of the value and resets the
\* frame cycle counter to 0 in both modes, so the next quarter-frame clock
\* that comes from ticking is made by the 3729th tick after the write; the
\* write itself clocks one quarter frame and one half frame exactly when the
\* new mode is the 5-step mode, and clocks nothing in the 4-step mode.
C33_FrameCounterWrite ==
    [][/\ ApuWrites(16407) =>
             /\ bus'.apu.frame_counter_mode = (IF op'.val >= 128 THEN 1 ELSE 0)
             /\ bus'.apu.frame_counter = 0
             /\ bus'.apu.clocks.quarter - bus.apu.clocks.quarter =
                   bus'.apu.frame_counter_mode
             /\ bus'.apu.clocks.half - bus.apu.clocks.half =
                   bus'.apu.frame_counter_mode
       /\ (op'.kind = "apu_tick" /\ nops' <= 3729) =>
             /\ bus'.apu.clocks.quarter - bus.apu.clocks.quarter =
                   (IF nops' = 3729 THEN 1 ELSE 0)
             /\ bus'.apu.clocks.half = bus.apu.clocks.half
      ]_vars

\* the 3729th tick after a mid-frame write selecting the 5-step mode: one
\* quarter clock before the write, one from the write, one from this tick
C33_Witness ==
    /\ op.kind = "apu_tick" /\ nops = 3729 /\ apu_ticks = 3730 + 3729
    /\ bus.apu.frame_counter_mode = 1
    /\ bus.apu.clocks.quarter = 3 /\ bus.apu.clocks.half = 1

\* a mid-frame write selecting the 4-step mode clocked nothing
C33_Witness4 ==
    /\ op.kind = "apu_write" /\ op.addr = 16407 /\ op.val = 64
    /\ apu_ticks = 3730 /\ bus.apu.frame_counter = 0
    /\ bus.apu.frame_counter_mode = 0
    /\ bus.apu.clocks.quarter = 1 /\ bus.apu.clocks.half = 0


-----------------------------------------------------------------------------
(* SpecHit: the sprite 0 hit                                               *)

\* the background is shown at x and its pattern value there is nonzero
BgOpaque(p, x) ==
    /\ Contains(p.mask, MASK_SHOW_BG)
    /\ ~(~Contains(p.mask, MASK_SHOW_BG_LEFT) /\ x < 8)
    /\ bg_pixel(p, x).pixel # 0

\* some shown, non-transparent pixel of sprite 0 at x < 255 lies on a
\* non-transparent background pixel of the scanline
Sprite0OnBackground(p, scanline) ==
    /\ Contains(p.mask, MASK_SHOW_SPR)
    /\ SpriteOnLine(p, 0, scanline)
    /\ \E col \in 0..7 :
          /\ sprite_pixel_shown(p, 0, scanline, col)
          /\ MemGet(p.oam, 3) + col < 255
          /\ BgOpaque(p, MemGet(p.oam, 3) + col)

ZeroHit(p) == Contains(p.status, SPRITE_ZERO_HIT)

\* C34: the tick that renders a scanline sets SPRITE_ZERO_HIT iff some
\* non-transparent, unmasked pixel of sprite 0 at X < 255 lies on a
\* non-transparent background pixel (so not where sprite 0 only overlaps
\* pixels of other sprites over transparent background); once set the flag
\* stays set, a read of $2002 included, until the tick at scanline 261,
\* cycle 1 clears it.
C34_SpriteZeroHit ==
    [][/\ (op'.kind = "tick" /\ bus.ppu.scanline < VisibleScanlines /\ bus.ppu.cycle = 0) =>
             (ZeroHit(bus'.ppu) <=>
                 (ZeroHit(bus.ppu) \/ Sprite0OnBackground(bus.ppu, bus.ppu.scanline)))
       /\ (ZeroHit(bus.ppu) /\ ~(op'.kind = "tick" /\ bus.ppu.scanline = LastScanline
                                    /\ bus.ppu.cycle = 1)) => ZeroHit(bus'.ppu)
       /\ (op'.kind = "tick" /\ bus.ppu.scanline = LastScanline /\ bus.ppu.cycle = 1) =>
             ~ZeroHit(bus'.ppu)
      ]_vars

\* the flag's life once set, and the hit over a background pixel proper
C34_FlagKept ==
    [][/\ (ZeroHit(bus.ppu) /\ ~(op'.kind = "tick" /\ bus.ppu.scanline = LastScanline
                                    /\ bus.ppu.cycle = 1)) => ZeroHit(bus'.ppu)
       /\ (op'.kind = "tick" /\ bus.ppu.scanline = LastScanline /\ bus.ppu.cycle = 1) =>
             ~ZeroHit(bus'.ppu)
       /\ (op'.kind = "tick" /\ bus.ppu.scanline < VisibleScanlines /\ bus.ppu.cycle = 0
             /\ Sprite0OnBackground(bus.ppu, bus.ppu.scanline)
             /\ \A x \in 0..255 : BgOpaque(bus.ppu, x) =>
                   bus.ppu.palette_ram[(bg_pixel(bus.ppu, x).palette_index * 4
                                          + bg_pixel(bus.ppu, x).pixel) % 32] % 64
                      # bus.ppu.palette_ram[0] % 64)
             => ZeroHit(bus'.ppu)
      ]_vars

\* the flag set with the background hidden: sprite 0 lies on sprite 1 only
C34_HitOnSprite ==
    /\ ZeroHit(bus.ppu)
    /\ ~Contains(bus.ppu.mask, MASK_SHOW_BG)
    /\ bus.ppu.scanline = 239 /\ bus.ppu.cycle = 1

\* the flag not set although sprite 0 lies on background pixels of colour 2
C34_MissOnBackground ==
    /\ ~ZeroHit(bus.ppu)
    /\ bus.ppu.scanline = 239 /\ bus.ppu.cycle = 1
    /\ Sprite0OnBackground([bus.ppu EXCEPT !.cycle = 0], 239)

\* the flag read from $2002 at the start of the pre-render line
C34_HitRead ==
    /\ op.kind = "read" /\ Contains(ret, SPRITE_ZERO_HIT) /\ ZeroHit(bus.ppu)


-----------------------------------------------------------------------------
(* SpecFour: nametable indices                                             *)

\* C35: for every mirroring a loaded cartridge can report and every PPU
\* address in 0x2000..0x3EFF the physical nametable index of a PPUDATA access
\* is below 2048, so no nametable access goes out of bounds.
C35_NametableIndex ==
    [][op'.kind \in {"nt_write", "nt_read", "panic"} =>
          /\ op'.index < VramSize
          /\ op'.kind # "panic"
      ]_vars

\* the same for the two mirrorings that fold the four tables onto two
C35_TwoTables ==
    [][(op'.kind \in {"nt_write", "nt_read", "panic"}
          /\ bus.ppu.mirroring \in {"Horizontal", "Vertical"}) =>
          /\ op'.index < VramSize
          /\ op'.kind # "panic"
      ]_vars

\* a four-screen cartridge's access to table 2
C35_OutOfBounds ==
    /\ op.kind = "panic" /\ op.addr = 10240 /\ op.index = 2048
    /\ bus.ppu.mirroring = "FourScreen"


-----------------------------------------------------------------------------
(* SpecPrg: PRG ROM indices                                                *)

\* every file of the specification is accepted by from_ines
PrgAccepted == op.kind # "init" => ret.ok

\* C36: for every image from_ines accepts, with any PRG page count
\* including 0 and counts above 2, every Mapper0::cpu_read in 0x8000..0xFFFF
\* (the reset and interrupt vector fetches in particular) indexes inside the
\* PRG ROM and returns a byte.
C36_PrgIndex ==
    [][op'.kind \in {"prg_read", "panic"} =>
          /\ op'.index < bus.mapper.prg_rom.len
          /\ op'.kind = "prg_read"
      ]_vars

\* the same for files that declare at least one PRG page
C36_NonEmpty ==
    [][(op'.kind \in {"prg_read", "panic"} /\ inp.prg_pages >= 1) =>
          /\ op'.index < bus.mapper.prg_rom.len
          /\ op'.kind = "prg_read"
          /\ op'.val = RawByte(inp, ines_offset(inp.flags6) + op'.index)
      ]_vars

\* the reset vector fetch of a file with no PRG page
C36_EmptyPrg ==
    /\ op.kind = "panic" /\ op.addr = 65532 /\ op.index = 32764
    /\ inp.prg_pages = 0 /\ ret.ok /\ bus.mapper.prg_rom.len = 0

\* a read of the last byte of a three-page file
C36_ThreePages ==
    /\ op.kind = "prg_read" /\ op.addr = 65535 /\ inp.prg_pages = 3


-----------------------------------------------------------------------------
(* SpecPad: the second controller port                                     *)

\* C37: through the bus controller 2 is never strobed or latched: a write to
\* 0x4016 reaches only controller 1 and a write to 0x4017 goes to the APU
\* frame counter, so whatever buttons controller 2 holds down every read of
\* 0x4017 returns 0, while reads of 0x4016 follow controller 1's protocol
\* (bit 0 of the live mask while strobed, then the latched bits in order).
C37_Controller2 ==
    /\ [](~bus.controller2.strobe /\ bus.controller2.shift_register = 0)
    /\ [][/\ (op'.kind = "pad_write" /\ op'.addr = 16406) =>
                /\ bus'.controller2 = bus.controller2
                /\ bus'.controller1 = ControllerWrite(bus.controller1, op'.val)
                /\ bus'.apu = bus.apu
          /\ (op'.kind = "pad_write" /\ op'.addr = 16407) =>
                /\ bus'.controller2 = bus.controller2
                /\ bus'.controller1 = bus.controller1
                /\ bus'.apu.frame_counter_mode = op'.val \div 128
          /\ (op'.kind = "pad_read" /\ op'.addr = 16407) =>
                /\ ret' = 0
                /\ bus' = bus
          /\ (op'.kind = "pad_read" /\ op'.addr = 16406) =>
                /\ bus'.controller2 = bus.controller2
                /\ bus.controller1.strobe => ret' = bus.controller1.buttons % 2
                /\ (~bus.controller1.strobe /\ latched # -1) =>
                      ret' = IF nreads' <= 8 THEN (latched \div (2 ^ (nreads' - 1))) % 2 ELSE 0
         ]_vars

\* controller 2 holds every button, the program strobed 0x4016 high and low
\* (latching the mask of controller 1), and the read of 0x4017 returned 0
C37_Witness ==
    /\ op.kind = "pad_read" /\ op.addr = 16407 /\ ret = 0
    /\ bus.controller2.buttons = 255
    /\ latched = 255 /\ nops = 5
    /\ bus.controller1.shift_register = 255

\* the second read of 0x4016 after a latch returned bit 1 of the mask
C37_WitnessPort1 ==
    /\ op.kind = "pad_read" /\ op.addr = 16406 /\ ret = 1
    /\ latched = 255 /\ nreads = 2


-----------------------------------------------------------------------------
(* SpecApuReg: the length counters                                         *)

\* the length-load register of each channel, in the order of ApuChannels
LengthRegs == <<16387, 16391, 16395, 16399>>

\* C38: for each of pulse 1, pulse 2, triangle and noise: a disabled channel's
\* length counter is 0; a write to the channel's length-load register ($4003,
\* $4007, $400B, $400F) loads the counter from the 32-entry length table only
\* while the channel is enabled and otherwise leaves it at 0; a half-frame
\* clock decrements a nonzero counter by exactly 1 unless the channel's halt
\* flag is set and never takes it below 0.
C38_LengthCounter ==
    /\ Len(LENGTH_TABLE) = 32
    /\ [](\A i \in 1..4 : ~bus.apu[ApuChannels[i]].enabled =>
                             bus.apu[ApuChannels[i]].length_counter = 0)
    /\ [][\A i \in 1..4 :
            /\ (op'.kind = "apu_write" /\ op'.addr = LengthRegs[i]) =>
                  bus'.apu[ApuChannels[i]].length_counter =
                     (IF bus.apu[ApuChannels[i]].enabled
                      THEN LENGTH_TABLE[(op'.val \div 8) + 1] ELSE 0)
            /\ bus'.apu.clocks.half = bus.apu.clocks.half + 1 =>
                  /\ bus'.apu[ApuChannels[i]].length_counter >= 0
                  /\ bus'.apu[ApuChannels[i]].length_counter =
                        (IF bus.apu[ApuChannels[i]].length_counter > 0
                            /\ ~bus.apu[ApuChannels[i]].length_halt
                         THEN bus.apu[ApuChannels[i]].length_counter - 1
                         ELSE bus.apu[ApuChannels[i]].length_counter)
         ]_vars

\* all channels enabled, pulse 1 and noise loaded with 2, noise halted; the
\* half-frame clock took pulse 1 to 1 and left noise at 2 and pulse 2 at 0
C38_Witness ==
    /\ op.kind = "apu_write" /\ op.addr = 16407 /\ bus.apu.clocks.half = 1
    /\ bus.apu.pulse1.length_counter = 1
    /\ bus.apu.noise.length_halt /\ bus.apu.noise.length_counter = 2
    /\ bus.apu.pulse2.enabled /\ bus.apu.pulse2.length_counter = 0

\* a length load of the disabled noise channel, pulse 1 being enabled
C38_WitnessDisabled ==
    /\ op.kind = "apu_write" /\ op.addr = 16399 /\ op.val = 24
    /\ ~bus.apu.noise.enabled /\ bus.apu.noise.length_counter = 0
    /\ bus.apu.pulse1.enabled


-----------------------------------------------------------------------------
(* SpecNoise: the noise shift register                                     *)

\* bit n of the noise shift register in the bus b
NoiseBit(b, n) == (b.apu.noise.shift_register \div (2 ^ n)) % 2

\* C39: the noise shift register, starting at 1, stays within 1..0x7FFF (never
\* 0, bit 15 never set) under any sequence of timer clocks and $400E writes
\* switching the tap between bit 1 and bit 6; each clock of the register
\* computes feedback = bit 0 xor bit (6 if mode else 1), shifts right by one
\* and places the feedback in bit 14.
C39_ShiftRegister ==
    /\ [](bus.apu.noise.shift_register \in 1..32767)
    /\ [][/\ (op'.kind = "noise_clock" /\ bus.apu.noise.timer_counter = 0) =>
                /\ \A n \in 0..13 : NoiseBit(bus', n) = NoiseBit(bus, n + 1)
                /\ NoiseBit(bus', 14) =
                      (IF NoiseBit(bus, 0) # NoiseBit(bus, IF bus.apu.noise.mode THEN 6 ELSE 1)
                       THEN 1 ELSE 0)
                /\ NoiseBit(bus', 15) = 0
          /\ (op'.kind = "noise_clock" /\ bus.apu.noise.timer_counter # 0) =>
                bus'.apu.noise.shift_register = bus.apu.noise.shift_register
          /\ op'.kind = "apu_write" =>
                /\ bus'.apu.noise.shift_register = bus.apu.noise.shift_register
                /\ bus'.apu.noise.mode = (op'.val >= 128)
         ]_vars

\* a clock in short mode whose feedback came from bit 6 alone: bits 0 and 1
\* were 0 and bit 6 was 1 before it
C39_Witness ==
    /\ op.kind = "noise_clock" /\ bus.apu.noise.mode
    /\ bus.apu.noise.timer_counter = 4
    /\ NoiseBit(bus, 14) = 1 /\ NoiseBit(bus, 5) = 1 /\ NoiseBit(bus, 0) = 0

\* the register holding fifteen ones
C39_WitnessOnes == bus.apu.noise.shift_register = 32767


-----------------------------------------------------------------------------
(* SpecVt: the range of t and v                                            *)

\* the step is an access (read or write) of PPUDATA
DataAccess == op'.kind \in {"read", "write"} /\ op'.addr = 8199

\* the step copies t into v: the second PPUADDR write
AddrCopy == op'.kind = "write" /\ op'.addr = 8198 /\ bus.ppu.w /\ bus'.ppu.v = bus'.ppu.t

\* the step is a tick that updates v while rendering: the fine-Y increment at
\* cycle 256, the copy at cycle 257 or the pre-render copy at cycles 280..304
TickUpdate ==
    /\ op'.kind = "tick" /\ rendering_enabled(bus.ppu)
    /\ \/ (bus.ppu.scanline < VisibleScanlines \/ bus.ppu.scanline = LastScanline)
             /\ bus.ppu.cycle \in {256, 257}
       \/ bus.ppu.scanline = LastScanline /\ bus.ppu.cycle \in 280..304

\* C40: in every PPU state reachable by register writes ($2000, $2005, $2006,
\* $2007), register reads and ticks, t and v are below 0x8000; v goes above
\* 0x3FFF only by a copy of t's fine-Y bits into v (the second $2006 write or
\* a rendering copy) or by the fine-Y increment, and after every $2007 access
\* v is below 0x4000.
C40_LoopyRange ==
    /\ [](bus.ppu.t \in 0..32767 /\ bus.ppu.v \in 0..32767)
    /\ [][/\ (bus.ppu.v < 16384 /\ bus'.ppu.v >= 16384) => (AddrCopy \/ TickUpdate)
          /\ DataAccess => bus'.ppu.v < 16384
         ]_vars

\* t = v = 0x7FFF after PPUSCROLL, PPUCTRL and a second PPUADDR write, then a
\* PPUDATA access with the increment of 32 wrapped v to 0x001F
C40_Witness ==
    /\ op.kind \in {"read", "write"} /\ op.addr = 8199 /\ op.v0 = 32767
    /\ bus.ppu.t = 32767 /\ bus.ppu.v = 31

\* the fine-Y increment took v above 0x3FFF
C40_WitnessIncrement ==
    /\ op.kind = "tick" /\ bus.ppu.cycle = 257 /\ bus.ppu.scanline = 0
    /\ bus.ppu.v = 4096 /\ bus.ppu.t = 0

====
